---------------------------- MODULE Spec2Model ----------------------------
(***************************************************************************)
(* A model of the UPE datapath (akos011221/upe): the SPSC ring, the        *)
(* packet buffer pool with its thread-local caches, the neighbor tables,   *)
(* the capture / worker pipeline with its shutdown, the rule table, and    *)
(* the parser with the flow hash and the IPv4 checksum.                    *)
(*                                                                         *)
(* The specifications share this module, each over its own variables:      *)
(*   SpecRing   one producer and one consumer on one ring (ring.c)         *)
(*   SpecNeigh  the ARP and NDP tables (arp_table.c, ndp_table.c)          *)
(*   SpecPool   threads calling pktbuf_alloc / pktbuf_free (pktbuf.c)      *)
(*   SpecPipe   capture thread + workers + signal (rx_pcap.c, worker.c,    *)
(*              main.c) over the same pool                                 *)
(*   FairPipe   SpecPipe with weak fairness of each worker's steps         *)
(*   SpecSolo   one thread calling pktbuf_alloc / pktbuf_free (pktbuf.c)    *)
(*   SpecFlush  two threads that fill and flush their caches (pktbuf.c)    *)
(*   SpecRx     the capture thread alone over two rings (rx_pcap.c)        *)
(*   SpecAnyPool  the pipeline over a pool of any capacity up to PoolCap   *)
(*   SpecOrder  the pipeline with a log of the capture order               *)
(*   SpecDispatch  the ring choice of the capture callback (rx_pcap.c)     *)
(*   SpecWorker one worker's process_packet on frames (worker.c)           *)
(*   SpecWalk   the NDP option walk of handle_control_packet (worker.c)    *)
(*   SpecCount  one worker's packet counters over its bursts (worker.c)    *)
(*   SpecLock   update and get of two workers under the table's rwlock     *)
(*   SpecRingInit, SpecRule, SpecHash, SpecParse, SpecChecksum             *)
(*              calls of ring_init, of rule_table_add / rule_table_match,  *)
(*              of flow_hash, parse_flow_key and ipv4_checksum             *)
(* The variables a specification does not use keep their initial value.    *)
(***************************************************************************)
EXTENDS Integers, Sequences, FiniteSets, TLC

VARIABLES
    ring_head,   \* spsc_ring_t.head
    ring_tail,   \* spsc_ring_t.tail
    ring_slots,  \* spsc_ring_t.slots[0 .. capacity-1]
    prod,        \* the producer's position and locals in ring_push_burst
    cons,        \* the consumer's position and locals in ring_pop_burst
    accepted,    \* history: number of pointers push has accepted so far
    popped,      \* history: the pointers pop has returned, in order
    arp_entries, \* arp_table_t.entries[0 .. capacity-1]
    ndp_entries, \* ndp_table_t.entries[0 .. capacity-1]
    neigh_last,  \* history: the last two neighbor table calls and their results
    neigh_learned, \* history: per family, the addresses ever passed to update
    pool_top,    \* pktbuf_pool_t.top
    free_stack,  \* pktbuf_pool_t.free_stack[0 .. capacity-1]
    t_cache,     \* per thread: t_cache.items[0 .. t_cache.count-1]
    pcall,       \* per thread: position and locals in pktbuf_alloc / pktbuf_free
    held,        \* per thread: how many times it holds each buffer handle
    g_stop,      \* main.c g_stop
    rx,          \* the capture thread's position in rx_start and its locals
    rx_batches,  \* rx_ctx_t.batches[ring].buffer[0 .. count-1]
    rq,          \* per ring: the pointers between tail and head, oldest first
    rq_busy,     \* per ring: slots the consumer has read but not yet released
    wk,          \* per worker: position in worker_main and its locals
    pkts_left,   \* frames the capture source will still deliver
    rules,       \* rule_table_t.rules[0 .. count-1]
    rt_last,     \* history: the last rule table call and its result
    call         \* the last call of a stateless function: arguments and result

ringVars == <<ring_head, ring_tail, ring_slots, prod, cons, accepted, popped>>

neighVars == <<arp_entries, ndp_entries, neigh_last, neigh_learned>>

poolVars == <<pool_top, free_stack, t_cache, pcall>>

pipeVars == <<g_stop, rx, rx_batches, rq, rq_busy, wk, pkts_left>>

ruleVars == <<rules, rt_last>>

\* The variables of the sequential components.
auxVars == <<ruleVars, call>>

vars == <<ringVars, neighVars, poolVars, held, pipeVars, auxVars>>

NULL == 0

Min(a, b) == IF a < b THEN a ELSE b

RECURSIVE Pow2(_)
Pow2(n) == IF n = 0 THEN 1 ELSE 2 * Pow2(n - 1)

\* x & y on naturals, bit by bit.
RECURSIVE BitAnd(_, _)
BitAnd(x, y) ==
    IF x = 0 \/ y = 0 THEN 0
    ELSE (IF x % 2 = 1 /\ y % 2 = 1 THEN 1 ELSE 0) + 2 * BitAnd(x \div 2, y \div 2)

(***************************************************************************)
(* SPSC ring (src/src/ring.c)                                              *)
(***************************************************************************)

\* Bounds of the ring model.
RingCapLog == 1     \* the ring has 2^RingCapLog slots
IdxBits == 3        \* width of head and tail (size_t in the source)
MaxBurst == 3       \* largest count passed to a burst call
MaxPushed == 10     \* pointers accepted before the producer stops

IdxMod == Pow2(IdxBits)

\* ring_init: capacity and mask of the ring under test.
ring_capacity == Pow2(RingCapLog)
ring_mask == ring_capacity - 1

\* head - tail in size_t arithmetic.
IdxSub(a, b) == (a - b + IdxMod) % IdxMod
IdxAdd(a, b) == (a + b) % IdxMod

\* The slot an index lands in: idx & mask.
SlotOf_saturating(idx) == Min(idx, ring_mask)
SlotOf(idx) == BitAnd(idx, ring_mask)

\* ring_push_burst: the count after "if (count > available) count = available".
PushClamp_noclamp(count, head, tail) == count
PushClamp(count, head, tail) ==
    LET available == ring_capacity - IdxSub(head, tail)
    IN  IF count > available THEN available ELSE count

\* ring_pop_burst: the count after "if (count > entries) count = entries".
PopClamp_off(count, head, tail) ==
    LET entries == IdxSub(head, tail) + 1
    IN  IF count > entries THEN entries ELSE count
PopClamp(count, head, tail) ==
    LET entries == IdxSub(head, tail)
    IN  IF count > entries THEN entries ELSE count

IdleCall == [pc |-> "idle", req |-> 0, count |-> 0, head |-> 0, tail |-> 0,
             i |-> 0, objs |-> <<>>, ret |-> 0, snap |-> <<>>]

InitRing ==
    /\ ring_head = 0
    /\ ring_tail = 0
    /\ ring_slots = [s \in 0 .. ring_capacity - 1 |-> NULL]
    /\ prod = IdleCall
    /\ cons = IdleCall
    /\ accepted = 0
    /\ popped = <<>>

\* The producer calls ring_push_burst(r, objs, count) and loads its own head.
\* The pointers offered are the next `count` sequence numbers.
PushBegin ==
    /\ prod.pc = "idle"
    /\ accepted < MaxPushed
    /\ \E count \in 0 .. MaxBurst :
         prod' = [IdleCall EXCEPT !.pc = "ld_tail", !.req = count, !.count = count,
                                  !.head = ring_head,
                                  !.objs = [k \in 1 .. count |-> accepted + k],
                                  !.snap = ring_slots]
    /\ UNCHANGED <<ring_head, ring_tail, ring_slots, cons, accepted, popped, neighVars, auxVars, poolVars, held, pipeVars>>

\* Acquire-load of tail, the clamp, and the early return on a full ring.
PushLoadTail ==
    /\ prod.pc = "ld_tail"
    /\ LET c == PushClamp(prod.count, prod.head, ring_tail)
       IN  prod' = [prod EXCEPT !.tail = ring_tail, !.count = c,
                                !.pc = IF prod.count > c /\ c = 0 THEN "ret" ELSE "write",
                                !.ret = 0]
    /\ UNCHANGED <<ring_head, ring_tail, ring_slots, cons, accepted, popped, neighVars, auxVars, poolVars, held, pipeVars>>

\* One iteration of the copy loop: slots[(head + i) & mask] = objs[i].
PushWrite ==
    /\ prod.pc = "write"
    /\ prod.i < prod.count
    /\ ring_slots' = [ring_slots EXCEPT ![SlotOf(IdxAdd(prod.head, prod.i))] =
                                             prod.objs[prod.i + 1]]
    /\ prod' = [prod EXCEPT !.i = prod.i + 1]
    /\ UNCHANGED <<ring_head, ring_tail, cons, accepted, popped, neighVars, auxVars, poolVars, held, pipeVars>>

\* Release-store of head + count; the call returns count.
PushStore_before_copy ==
    /\ prod.pc = "write"
    /\ ring_head' = IdxAdd(prod.head, prod.count)
    /\ prod' = [prod EXCEPT !.pc = "ret", !.ret = prod.count]
    /\ accepted' = accepted + prod.count
    /\ UNCHANGED <<ring_tail, ring_slots, cons, popped, neighVars, auxVars, poolVars, held, pipeVars>>
PushStore ==
    /\ prod.pc = "write"
    /\ prod.i >= prod.count
    /\ ring_head' = IdxAdd(prod.head, prod.count)
    /\ prod' = [prod EXCEPT !.pc = "ret", !.ret = prod.count]
    /\ accepted' = accepted + prod.count
    /\ UNCHANGED <<ring_tail, ring_slots, cons, popped, neighVars, auxVars, poolVars, held, pipeVars>>

PushReturn ==
    /\ prod.pc = "ret"
    /\ prod' = IdleCall
    /\ UNCHANGED <<ring_head, ring_tail, ring_slots, cons, accepted, popped, neighVars, auxVars, poolVars, held, pipeVars>>

\* The consumer calls ring_pop_burst(r, objs, count) and loads its own tail.
PopBegin ==
    /\ cons.pc = "idle"
    /\ \E count \in 0 .. MaxBurst :
         cons' = [IdleCall EXCEPT !.pc = "ld_head", !.req = count, !.count = count,
                                  !.tail = ring_tail, !.snap = ring_slots]
    /\ UNCHANGED <<ring_head, ring_tail, ring_slots, prod, accepted, popped, neighVars, auxVars, poolVars, held, pipeVars>>

\* Acquire-load of head, the clamp, and the early return on an empty ring.
PopLoadHead ==
    /\ cons.pc = "ld_head"
    /\ LET c == PopClamp(cons.count, ring_head, cons.tail)
       IN  cons' = [cons EXCEPT !.head = ring_head, !.count = c,
                                !.pc = IF cons.count > c /\ c = 0 THEN "ret" ELSE "read",
                                !.ret = 0]
    /\ UNCHANGED <<ring_head, ring_tail, ring_slots, prod, accepted, popped, neighVars, auxVars, poolVars, held, pipeVars>>

\* One iteration of the copy loop: objs[i] = slots[(tail + i) & mask].
PopRead ==
    /\ cons.pc = "read"
    /\ cons.i < cons.count
    /\ cons' = [cons EXCEPT !.i = cons.i + 1,
                            !.objs = Append(cons.objs,
                                            ring_slots[SlotOf(IdxAdd(cons.tail, cons.i))])]
    /\ UNCHANGED <<ring_head, ring_tail, ring_slots, prod, accepted, popped, neighVars, auxVars, poolVars, held, pipeVars>>

\* Release-store of tail + count; the call returns count.
PopStore ==
    /\ cons.pc = "read"
    /\ cons.i >= cons.count
    /\ ring_tail' = IdxAdd(cons.tail, cons.count)
    /\ cons' = [cons EXCEPT !.pc = "ret", !.ret = cons.count]
    /\ popped' = popped \o cons.objs
    /\ UNCHANGED <<ring_head, ring_slots, prod, accepted, neighVars, auxVars, poolVars, held, pipeVars>>

PopReturn ==
    /\ cons.pc = "ret"
    /\ cons' = IdleCall
    /\ UNCHANGED <<ring_head, ring_tail, ring_slots, prod, accepted, popped, neighVars, auxVars, poolVars, held, pipeVars>>

NextRing ==
    \/ PushBegin
    \/ PushLoadTail
    \/ PushWrite
    \/ PushStore
    \/ PushReturn
    \/ PopBegin
    \/ PopLoadHead
    \/ PopRead
    \/ PopStore
    \/ PopReturn

\* C4: the sequence of pointers popped is a prefix of the sequence accepted by
\* push (the sequence numbers 1, 2, 3, ... in order): nothing lost, duplicated
\* or reordered.
C4_RingFifo ==
    /\ Len(popped) <= accepted
    /\ \A k \in 1 .. Len(popped) : popped[k] = k

\* C4 witness: pops have returned pointers written after head wrapped around
\* its width, while the producer is in the middle of another burst.
C4_Witness ==
    /\ Len(popped) > IdxMod
    /\ prod.pc = "write"
    /\ prod.i > 0

\* C5: 0 <= head - tail <= capacity in every reachable state; head - tail is
\* the number of pointers accepted and not yet popped.
C5_RingCapacity ==
    /\ accepted - Len(popped) >= 0
    /\ accepted - Len(popped) <= ring_capacity
    /\ IdxSub(ring_head, ring_tail) = accepted - Len(popped)

\* C5 witness: the ring is full after its indices wrapped.
C5_Witness ==
    /\ accepted > IdxMod
    /\ IdxSub(ring_head, ring_tail) = ring_capacity

\* C6: a push returns min(count, capacity - (head - tail)) and has written
\* exactly that many pointers and advanced head by it; a pop returns
\* min(count, head - tail), has read exactly that many and advanced tail by
\* it; a return of 0 leaves head, tail and every slot as the call found them.
C6_BurstResult ==
    /\ prod.pc = "ret" =>
         /\ prod.ret = Min(prod.req, ring_capacity - IdxSub(prod.head, prod.tail))
         /\ prod.i = prod.ret
         /\ ring_head = IdxAdd(prod.head, prod.ret)
         /\ prod.ret = 0 => ring_head = prod.head /\ ring_slots = prod.snap
    /\ cons.pc = "ret" =>
         /\ cons.ret = Min(cons.req, IdxSub(cons.head, cons.tail))
         /\ Len(cons.objs) = cons.ret
         /\ ring_tail = IdxAdd(cons.tail, cons.ret)
         /\ cons.ret = 0 => ring_tail = cons.tail

\* C6 witness: a push on a full ring and a pop on an empty ring have both
\* returned 0, after a partial push.
C6_Witness ==
    /\ prod.pc = "ret" /\ prod.req > 0 /\ prod.ret = 0
    /\ cons.pc = "ret" /\ cons.req > 0 /\ cons.ret = 0
    /\ accepted > 0

\* The pointers the consumer has copied out of the ring so far.
Consumed == IF cons.pc = "read" THEN Len(popped) + Len(cons.objs) ELSE Len(popped)

\* The slot the k-th accepted pointer is written to.
SlotOfNth(k) == SlotOf((k - 1) % IdxMod)

\* C24: every pointer that is published (head was advanced past it) and not
\* yet copied out by the consumer is still in its slot; every pointer the
\* consumer copies out was published before and is the one written there;
\* head is advanced when every slot of the burst is written, tail when
\* every slot of the burst is read.
C24_NoSlotRace ==
    /\ \A k \in 1 .. MaxPushed + MaxBurst :
          (Consumed < k /\ k <= accepted) => ring_slots[SlotOfNth(k)] = k
    /\ cons.pc = "read" =>
          \A j \in 1 .. Len(cons.objs) :
              /\ cons.objs[j] = Len(popped) + j
              /\ Len(popped) + j <= accepted
    /\ prod.pc = "ret" =>
          /\ prod.i = prod.count
          /\ \A i \in 0 .. prod.ret - 1 :
                ring_slots[SlotOf(IdxAdd(prod.head, i))] = prod.objs[i + 1]
    /\ cons.pc = "ret" => Len(cons.objs) = cons.count

\* The producer has written a slot it has not published yet while the
\* consumer has read a slot it has not released yet, after the indices
\* wrapped.
C24_Witness ==
    /\ prod.pc = "write" /\ prod.i = 1
    /\ cons.pc = "read" /\ cons.i = 1
    /\ accepted >= IdxMod

(***************************************************************************)
(* Neighbor tables (src/src/arp_table.c, src/src/ndp_table.c)              *)
(***************************************************************************)

\* Bounds of the neighbor table model.
NeighCap == 2       \* capacity both tables are initialised with

\* The addresses and MACs the calls draw from.  An IPv6 address is its four
\* 32-bit words, as hash_ipv6 reads it.
Ip4Set == {0, 1, 2, 5}
Ip6Set == {<<0, 0, 0, 0>>, <<1, 0, 0, 0>>, <<0, 1, 0, 0>>, <<2, 0, 0, 1>>}
MacSet == {1, 2}

\* x ^ y on naturals, bit by bit.
RECURSIVE BitXor(_, _)
BitXor(x, y) ==
    IF x = 0 THEN y
    ELSE IF y = 0 THEN x
    ELSE (IF x % 2 = y % 2 THEN 0 ELSE 1) + 2 * BitXor(x \div 2, y \div 2)

\* arp_table_init / ndp_table_init: calloc'ed entries, all invalid.
EmptyEntry4 == [valid |-> FALSE, ip |-> 0, mac |-> 0]
EmptyEntry6 == [valid |-> FALSE, ip |-> <<0, 0, 0, 0>>, mac |-> 0]

\* hash_ipv6: XOR of the four words, modulo the capacity.
hash_ipv6(ip, capacity) == BitXor(BitXor(BitXor(ip[1], ip[2]), ip[3]), ip[4]) % capacity

\* The probe loop of arp_update from iteration i on.
RECURSIVE arp_probe_update(_, _, _, _, _)
arp_probe_update(t, idx, i, ip, mac) ==
    IF i >= NeighCap THEN t
    ELSE LET curr == (idx + i) % NeighCap
         IN  IF ~t[curr].valid
             THEN [t EXCEPT ![curr] = [valid |-> TRUE, ip |-> ip, mac |-> mac]]
             ELSE IF t[curr].ip = ip
             THEN [t EXCEPT ![curr].mac = mac]
             ELSE arp_probe_update(t, idx, i + 1, ip, mac)

arp_update_hashes_mac(t, ip, mac) == arp_probe_update(t, mac % NeighCap, 0, ip, mac)
arp_update(t, ip, mac) == arp_probe_update(t, ip % NeighCap, 0, ip, mac)

\* The probe loop of arp_get_mac from iteration i on.
RECURSIVE arp_probe_get(_, _, _, _)
arp_probe_get(t, idx, i, ip) ==
    IF i >= NeighCap THEN [hit |-> FALSE, mac |-> 0]
    ELSE LET curr == (idx + i) % NeighCap
         IN  IF t[curr].valid /\ t[curr].ip = ip
             THEN [hit |-> TRUE, mac |-> t[curr].mac]
             ELSE IF ~t[curr].valid
             THEN [hit |-> FALSE, mac |-> 0]
             ELSE arp_probe_get(t, idx, i + 1, ip)

arp_get_mac_skips_valid(t, ip) ==
    IF t[ip % NeighCap].ip = ip
    THEN [hit |-> TRUE, mac |-> t[ip % NeighCap].mac]
    ELSE arp_probe_get(t, ip % NeighCap, 0, ip)
arp_get_mac(t, ip) == arp_probe_get(t, ip % NeighCap, 0, ip)

\* The probe loop of ndp_update from iteration i on.
RECURSIVE ndp_probe_update(_, _, _, _, _)
ndp_probe_update(t, idx, i, ip, mac) ==
    IF i >= NeighCap THEN t
    ELSE LET curr == (idx + i) % NeighCap
         IN  IF ~t[curr].valid
             THEN [t EXCEPT ![curr] = [valid |-> TRUE, ip |-> ip, mac |-> mac]]
             ELSE IF t[curr].ip = ip
             THEN [t EXCEPT ![curr].mac = mac]
             ELSE ndp_probe_update(t, idx, i + 1, ip, mac)

ndp_update(t, ip, mac) == ndp_probe_update(t, hash_ipv6(ip, NeighCap), 0, ip, mac)

\* The probe loop of ndp_get_mac from iteration i on.
RECURSIVE ndp_probe_get(_, _, _, _)
ndp_probe_get(t, idx, i, ip) ==
    IF i >= NeighCap THEN [hit |-> FALSE, mac |-> 0]
    ELSE LET curr == (idx + i) % NeighCap
         IN  IF t[curr].valid /\ t[curr].ip = ip
             THEN [hit |-> TRUE, mac |-> t[curr].mac]
             ELSE IF ~t[curr].valid
             THEN [hit |-> FALSE, mac |-> 0]
             ELSE ndp_probe_get(t, idx, i + 1, ip)

ndp_get_mac(t, ip) == ndp_probe_get(t, hash_ipv6(ip, NeighCap), 0, ip)

\* No neighbor table call has been made.
NoCall == [op |-> "none", fam |-> 0, ip |-> 0, mac |-> 0, hit |-> FALSE,
           prev_op |-> "none", prev_ip |-> 0, prev_mac |-> 0, prev_fam |-> 0]

\* A call's record.  It remembers the call before it when that was an update.
CallRecord(op, fam, ip, mac, hit) ==
    IF neigh_last.op = "update"
    THEN [op |-> op, fam |-> fam, ip |-> ip, mac |-> mac, hit |-> hit,
          prev_op |-> neigh_last.op, prev_ip |-> neigh_last.ip,
          prev_mac |-> neigh_last.mac, prev_fam |-> neigh_last.fam]
    ELSE [NoCall EXCEPT !.op = op, !.fam = fam, !.ip = ip, !.mac = mac, !.hit = hit]

\* The two tables share no state: a behaviour exercises one of them.
Exercised(fam) == neigh_last.fam \in {0, fam}

InitNeigh ==
    /\ arp_entries = [c \in 0 .. NeighCap - 1 |-> EmptyEntry4]
    /\ ndp_entries = [c \in 0 .. NeighCap - 1 |-> EmptyEntry6]
    /\ neigh_last = NoCall
    /\ neigh_learned = [v4 |-> {}, v6 |-> {}]

\* arp_update(t, ip, mac), under the write lock.
ArpUpdate ==
    \E ip \in Ip4Set, mac \in MacSet :
        /\ Exercised(4)
        /\ arp_entries' = arp_update(arp_entries, ip, mac)
        /\ neigh_last' = CallRecord("update", 4, ip, mac, FALSE)
        /\ neigh_learned' = [neigh_learned EXCEPT !.v4 = @ \cup {ip}]
        /\ UNCHANGED <<ndp_entries, ringVars, auxVars, poolVars, held, pipeVars>>

\* arp_get_mac(t, ip, out), under the read lock.
ArpGet ==
    \E ip \in Ip4Set :
        LET r == arp_get_mac(arp_entries, ip)
        IN  /\ Exercised(4)
            /\ neigh_last' = CallRecord("get", 4, ip, r.mac, r.hit)
            /\ UNCHANGED <<arp_entries, ndp_entries, neigh_learned, ringVars, auxVars, poolVars, held,
                           pipeVars>>

\* ndp_update(t, ip, mac), under the write lock.
NdpUpdate ==
    \E ip \in Ip6Set, mac \in MacSet :
        /\ Exercised(6)
        /\ ndp_entries' = ndp_update(ndp_entries, ip, mac)
        /\ neigh_last' = CallRecord("update", 6, ip, mac, FALSE)
        /\ neigh_learned' = [neigh_learned EXCEPT !.v6 = @ \cup {ip}]
        /\ UNCHANGED <<arp_entries, ringVars, auxVars, poolVars, held, pipeVars>>

\* ndp_get_mac(t, ip, out), under the read lock.
NdpGet ==
    \E ip \in Ip6Set :
        LET r == ndp_get_mac(ndp_entries, ip)
        IN  /\ Exercised(6)
            /\ neigh_last' = CallRecord("get", 6, ip, r.mac, r.hit)
            /\ UNCHANGED <<arp_entries, ndp_entries, neigh_learned, ringVars, auxVars, poolVars, held,
                           pipeVars>>

NextNeigh ==
    \/ ArpUpdate
    \/ ArpGet
    \/ NdpUpdate
    \/ NdpGet

\* A get that directly follows an update of the same address on the same table.
GetAfterUpdate ==
    /\ neigh_last.op = "get"
    /\ neigh_last.prev_op = "update"
    /\ neigh_last.prev_fam = neigh_last.fam
    /\ neigh_last.prev_ip = neigh_last.ip

\* C10: once update(ip, mac) has returned, the next get(ip) returns a hit with
\* exactly mac, whatever updates came before.
C10_GetAfterUpdate ==
    GetAfterUpdate => neigh_last.hit /\ neigh_last.mac = neigh_last.prev_mac

\* C11: a get returns a hit only for an address that some earlier update on
\* the same table was made for; for an address never passed to update it
\* returns a miss.
C11_NoSpuriousHit ==
    /\ (neigh_last.op = "get" /\ neigh_last.fam = 4 /\ neigh_last.hit)
           => neigh_last.ip \in neigh_learned.v4
    /\ (neigh_last.op = "get" /\ neigh_last.fam = 6 /\ neigh_last.hit)
           => neigh_last.ip \in neigh_learned.v6
    /\ \A ip \in Ip4Set \ neigh_learned.v4 : ~arp_get_mac(arp_entries, ip).hit
    /\ \A ip \in Ip6Set \ neigh_learned.v6 : ~ndp_get_mac(ndp_entries, ip).hit

\* C11 witness: a get of the never-learned address 0 on a completely full ARP
\* table whose probe sequence wraps around colliding entries, returning a miss.
C11_Witness ==
    /\ neigh_last.op = "get"
    /\ neigh_last.fam = 4
    /\ neigh_last.ip = 0
    /\ 0 \notin neigh_learned.v4
    /\ ~neigh_last.hit
    /\ \A c \in 0 .. NeighCap - 1 : arp_entries[c].valid
    /\ \E c \in 0 .. NeighCap - 1 : arp_entries[c].ip % NeighCap # c

\* No two valid entries of table t hold the same address.
OnePerIp(t) ==
    \A c, d \in DOMAIN t : c # d /\ t[c].valid /\ t[d].valid => t[c].ip # t[d].ip

\* Table t holds a valid entry for ip.
Present(t, ip) == \E c \in DOMAIN t : t[c].valid /\ t[c].ip = ip

\* Table t with the MAC of the entries for ip replaced by mac.
WithMac(t, ip, mac) ==
    [c \in DOMAIN t |-> IF t[c].valid /\ t[c].ip = ip THEN [t[c] EXCEPT !.mac = mac]
                                                     ELSE t[c]]

\* An update of an address the table holds changes that entry's MAC and
\* nothing else.
UpdateInPlace ==
    /\ (neigh_last'.op = "update" /\ neigh_last'.fam = 4
            /\ Present(arp_entries, neigh_last'.ip))
           => arp_entries' = WithMac(arp_entries, neigh_last'.ip, neigh_last'.mac)
    /\ (neigh_last'.op = "update" /\ neigh_last'.fam = 6
            /\ Present(ndp_entries, neigh_last'.ip))
           => ndp_entries' = WithMac(ndp_entries, neigh_last'.ip, neigh_last'.mac)

\* C36: after any sequence of updates a neighbor table holds at most one
\* valid entry per address, and an update for an address already present
\* changes only that entry's MAC and creates no second entry, bucket
\* collisions and probe wrap-around included.
C36_OneEntryPerIp ==
    /\ [](OnePerIp(arp_entries) /\ OnePerIp(ndp_entries))
    /\ [][UpdateInPlace]_vars

\* C36 witness: on a full ARP table, a second update, with another MAC, of
\* an address whose entry sits before its home bucket, reached by wrapping
\* around a colliding entry.
C36_Witness ==
    /\ neigh_last.op = "update"
    /\ neigh_last.fam = 4
    /\ neigh_last.prev_op = "update"
    /\ neigh_last.prev_ip = neigh_last.ip
    /\ neigh_last.prev_mac # neigh_last.mac
    /\ \A c \in 0 .. NeighCap - 1 : arp_entries[c].valid
    /\ \E c \in 0 .. NeighCap - 1 :
         /\ arp_entries[c].ip = neigh_last.ip
         /\ arp_entries[c].mac = neigh_last.mac
         /\ c < neigh_last.ip % NeighCap

(***************************************************************************)
(* The neighbor tables' read-write lock (src/src/arp_table.c,              *)
(* src/src/ndp_table.c)                                                    *)
(*                                                                         *)
(* Workers call update and get on one table at the same time.  A MAC is    *)
(* two bytes here, hi * 256 + lo, and memcpy copies it a byte at a time.   *)
(* call holds the lock (writer, readers), each thread's position, and as   *)
(* history the (address, MAC) pairs passed to update.                      *)
(***************************************************************************)

\* The workers that share the table.
LockThreads == {1, 2}

\* The MACs passed to update, 01:01 and 02:02, and the addresses, which
\* share a home bucket.
LockMacs == {257, 514}
LockIps(fam) == IF fam = 4 THEN {1, 1 + NeighCap} ELSE {<<1, 0, 0, 0>>, <<1 + NeighCap, 0, 0, 0>>}

\* The table of the behaviour's family, and the home bucket of an address.
LockTable(fam) == IF fam = 4 THEN arp_entries ELSE ndp_entries
HomeBucket(fam, ip) == IF fam = 4 THEN ip % NeighCap ELSE hash_ipv6(ip, NeighCap)

\* The slot the probe loop of arp_update / ndp_update stops at from
\* iteration i on: the first that is invalid or holds ip; NeighCap if the
\* loop runs out.
RECURSIVE update_slot(_, _, _, _)
update_slot(t, idx, i, ip) ==
    IF i >= NeighCap THEN NeighCap
    ELSE LET curr == (idx + i) % NeighCap
         IN  IF ~t[curr].valid THEN curr
             ELSE IF t[curr].ip = ip THEN curr
             ELSE update_slot(t, idx, i + 1, ip)

\* The slot the probe loop of arp_get_mac / ndp_get_mac copies the MAC
\* from: the first valid one that holds ip; NeighCap on a miss.
RECURSIVE get_slot(_, _, _, _)
get_slot(t, idx, i, ip) ==
    IF i >= NeighCap THEN NeighCap
    ELSE LET curr == (idx + i) % NeighCap
         IN  IF t[curr].valid /\ t[curr].ip = ip THEN curr
             ELSE IF ~t[curr].valid THEN NeighCap
             ELSE get_slot(t, idx, i + 1, ip)

IdleLockThread ==
    [pc |-> "idle", op |-> "none", ip |-> 0, mac |-> 0, curr |-> 0, out |-> 0,
     last |-> [op |-> "none"]]

\* arp_table_init or ndp_table_init: the lock is free.
LockStart ==
    /\ call.fn = "none"
    /\ \E fam \in {4, 6} :
         call' = [fn |-> "lock", fam |-> fam, writer |-> 0, readers |-> {},
                  th |-> [t \in LockThreads |-> IdleLockThread], passed |-> {}]
    /\ UNCHANGED <<ruleVars, ringVars, neighVars, poolVars, held, pipeVars>>

\* update(t, ip, mac) up to the return of pthread_rwlock_wrlock: no writer
\* and no reader holds the lock.
NeighWrLock(t) ==
    /\ call.fn = "lock"
    /\ call.th[t].pc = "idle"
    /\ call.writer = 0
    /\ call.readers = {}
    /\ \E ip \in LockIps(call.fam), mac \in LockMacs :
         call' = [call EXCEPT !.writer = t,
                              !.passed = @ \cup {<<ip, mac>>},
                              !.th[t] = [@ EXCEPT !.pc = "probe", !.op = "update",
                                                  !.ip = ip, !.mac = mac]]
    /\ UNCHANGED <<ruleVars, ringVars, neighVars, poolVars, held, pipeVars>>

\* get(t, ip, out) up to the return of pthread_rwlock_rdlock: no writer
\* holds the lock.
NeighRdLock_ignores_writer(t) ==
    /\ call.fn = "lock"
    /\ call.th[t].pc = "idle"
    /\ \E ip \in LockIps(call.fam) :
         call' = [call EXCEPT !.readers = @ \cup {t},
                              !.th[t] = [@ EXCEPT !.pc = "probe", !.op = "get",
                                                  !.ip = ip, !.out = 0]]
    /\ UNCHANGED <<ruleVars, ringVars, neighVars, poolVars, held, pipeVars>>
NeighRdLock(t) ==
    /\ call.fn = "lock"
    /\ call.th[t].pc = "idle"
    /\ call.writer = 0
    /\ \E ip \in LockIps(call.fam) :
         call' = [call EXCEPT !.readers = @ \cup {t},
                              !.th[t] = [@ EXCEPT !.pc = "probe", !.op = "get",
                                                  !.ip = ip, !.out = 0]]
    /\ UNCHANGED <<ruleVars, ringVars, neighVars, poolVars, held, pipeVars>>

\* The table of the behaviour's family becomes tbl.
StoreTable(tbl) ==
    IF call.fam = 4 THEN arp_entries' = tbl /\ UNCHANGED ndp_entries
                    ELSE ndp_entries' = tbl /\ UNCHANGED arp_entries

\* The probe loop.  update marks an invalid slot valid and stores the
\* address; both go on to the memcpy of the MAC, or to the unlock when the
\* loop found no slot.
NeighProbe(t) ==
    /\ call.fn = "lock"
    /\ call.th[t].pc = "probe"
    /\ LET me == call.th[t]
           tbl == LockTable(call.fam)
           idx == HomeBucket(call.fam, me.ip)
           curr == IF me.op = "update" THEN update_slot(tbl, idx, 0, me.ip)
                                       ELSE get_slot(tbl, idx, 0, me.ip)
       IN  IF curr = NeighCap
           THEN /\ call' = [call EXCEPT !.th[t].pc = "unlock",
                                        !.th[t].last = [op |-> me.op, ip |-> me.ip,
                                                        hit |-> FALSE, mac |-> 0]]
                /\ UNCHANGED <<arp_entries, ndp_entries>>
           ELSE /\ call' = [call EXCEPT !.th[t].pc = "byte1", !.th[t].curr = curr]
                /\ IF me.op = "update"
                   THEN StoreTable([tbl EXCEPT ![curr].valid = TRUE, ![curr].ip = me.ip])
                   ELSE UNCHANGED <<arp_entries, ndp_entries>>
    /\ UNCHANGED <<neigh_last, neigh_learned, ruleVars, ringVars, poolVars, held, pipeVars>>

\* memcpy of the MAC, one byte per step: update writes the entry's MAC from
\* its argument, get writes out_mac from the entry's MAC.
NeighCopyByte(t) ==
    /\ call.fn = "lock"
    /\ call.th[t].pc \in {"byte1", "byte2"}
    /\ LET me == call.th[t]
           tbl == LockTable(call.fam)
           first == me.pc = "byte1"
           src == IF me.op = "update" THEN me.mac ELSE tbl[me.curr].mac
           dst == IF me.op = "update" THEN tbl[me.curr].mac ELSE me.out
           val == IF first THEN (src \div 256) * 256 + (dst % 256)
                           ELSE (dst \div 256) * 256 + (src % 256)
           nxt == IF first THEN "byte2" ELSE "unlock"
       IN  IF me.op = "update"
           THEN /\ StoreTable([tbl EXCEPT ![me.curr].mac = val])
                /\ call' = [call EXCEPT !.th[t].pc = nxt,
                                        !.th[t].last = [op |-> "update", ip |-> me.ip,
                                                        hit |-> FALSE, mac |-> me.mac]]
           ELSE /\ UNCHANGED <<arp_entries, ndp_entries>>
                /\ call' = [call EXCEPT !.th[t].pc = nxt, !.th[t].out = val,
                                        !.th[t].last = [op |-> "get", ip |-> me.ip,
                                                        hit |-> ~first, mac |-> val]]
    /\ UNCHANGED <<neigh_last, neigh_learned, ruleVars, ringVars, poolVars, held, pipeVars>>

\* pthread_rwlock_unlock and the return.
NeighUnlock(t) ==
    /\ call.fn = "lock"
    /\ call.th[t].pc = "unlock"
    /\ call' = [call EXCEPT !.writer = IF @ = t THEN 0 ELSE @,
                            !.readers = @ \ {t},
                            !.th[t].pc = "idle"]
    /\ UNCHANGED <<ruleVars, ringVars, neighVars, poolVars, held, pipeVars>>

NextLock ==
    \/ LockStart
    \/ \E t \in LockThreads : NeighWrLock(t)
    \/ \E t \in LockThreads : NeighRdLock(t)
    \/ \E t \in LockThreads : NeighProbe(t)
    \/ \E t \in LockThreads : NeighCopyByte(t)
    \/ \E t \in LockThreads : NeighUnlock(t)

\* Thread t is between the acquisition of the lock and its release, in an
\* update or in a get.
Updating(t) == call.th[t].pc # "idle" /\ call.th[t].op = "update"
Getting(t) == call.th[t].pc # "idle" /\ call.th[t].op = "get"

\* The last get of thread t has returned a hit.
GetHit(t) ==
    /\ call.th[t].pc \in {"unlock", "idle"}
    /\ call.th[t].last.op = "get"
    /\ call.th[t].last.hit

\* C37: with workers concurrently calling update and get on one neighbor
\* table, no two updates modify the table at the same time and no get reads
\* it while an update is modifying it, and a get that hits returns a MAC
\* that was passed whole to some update for that address.
C37_LockedTable ==
    call.fn = "lock" =>
        /\ \A t, u \in LockThreads :
              t # u /\ Updating(t) => ~Updating(u) /\ ~Getting(u)
        /\ \A t \in LockThreads :
              GetHit(t) => <<call.th[t].last.ip, call.th[t].last.mac>> \in call.passed

\* C37 witness: a get has returned a hit for an address while another
\* thread's update of the same address, with another MAC, has written the
\* first byte of the entry's MAC.
C37_Witness ==
    /\ call.fn = "lock"
    /\ \E t, u \in LockThreads :
         /\ GetHit(t)
         /\ call.th[t].pc = "idle"
         /\ Updating(u)
         /\ call.th[u].pc = "byte2"
         /\ call.th[u].ip = call.th[t].last.ip
         /\ call.th[u].mac # call.th[t].last.mac

(***************************************************************************)
(* Packet buffer pool (src/src/pktbuf.c)                                   *)
(***************************************************************************)

\* Bounds of the pool model.  The source's cache holds 64 handles and moves
\* 32 at a time; the model keeps the ratio at a size TLC can cover.
PoolCap == 4            \* capacity passed to pktbuf_pool_init
LOCAL_CACHE_SIZE == 2   \* slots of a thread-local cache

BULK_TRANSFER_SIZE == LOCAL_CACHE_SIZE \div 2

\* Thread 0 is the capture thread (the main thread); the others are workers,
\* worker w consuming ring w.
Workers == {1}
Threads == {0} \cup Workers
Bufs == 1 .. PoolCap

\* A thread that is in neither pktbuf_alloc nor pktbuf_free.  at_cas and
\* exact are history: the slots [new_top, old_top) as they were when the
\* compare-exchange of global_pop_bulk succeeded, and whether the handles
\* copied out were those.
NoPoolCall == [pc |-> "idle", op |-> "none", buf |-> NULL,
               old_top |-> 0, new_top |-> 0, actual |-> 0,
               at_cas |-> <<>>, exact |-> TRUE]

\* pktbuf_pool_init: free_stack[i] = &buffers[i], top = capacity; every
\* thread's t_cache is zero-initialised.
InitPool ==
    /\ pool_top = PoolCap
    /\ free_stack = [i \in 0 .. PoolCap - 1 |-> i + 1]
    /\ t_cache = [t \in Threads |-> <<>>]
    /\ pcall = [t \in Threads |-> NoPoolCall]

\* pktbuf_alloc up to its first access of the global stack: the fast path
\* returns t_cache.items[--count]; the slow path enters refill_local_cache.
\* (One pool exists, so the "switched pools" branch only sets t_cache.pool.)
pktbuf_alloc_enter_keeps_item(t) ==
    IF Len(t_cache[t]) > 0
    THEN /\ pcall' = [pcall EXCEPT ![t] = [NoPoolCall EXCEPT !.pc = "ret", !.op = "alloc",
                                               !.buf = t_cache[t][Len(t_cache[t])]]]
         /\ UNCHANGED t_cache
    ELSE /\ pcall' = [pcall EXCEPT ![t] = [NoPoolCall EXCEPT !.pc = "pop_load", !.op = "alloc"]]
         /\ UNCHANGED t_cache
pktbuf_alloc_enter(t) ==
    IF Len(t_cache[t]) > 0
    THEN /\ pcall' = [pcall EXCEPT ![t] = [NoPoolCall EXCEPT !.pc = "ret", !.op = "alloc",
                                               !.buf = t_cache[t][Len(t_cache[t])]]]
         /\ t_cache' = [t_cache EXCEPT ![t] = SubSeq(@, 1, Len(@) - 1)]
    ELSE /\ pcall' = [pcall EXCEPT ![t] = [NoPoolCall EXCEPT !.pc = "pop_load", !.op = "alloc"]]
         /\ UNCHANGED t_cache

\* pktbuf_free up to its first access of the global stack: the fast path
\* stores buf at t_cache.items[count++]; the slow path enters
\* flush_local_cache.
pktbuf_free_enter_at_bottom(t, b) ==
    IF Len(t_cache[t]) < LOCAL_CACHE_SIZE
    THEN /\ pcall' = [pcall EXCEPT ![t] = [NoPoolCall EXCEPT !.pc = "ret", !.op = "free"]]
         /\ t_cache' = [t_cache EXCEPT ![t] = <<b>> \o @]
    ELSE /\ pcall' = [pcall EXCEPT ![t] = [NoPoolCall EXCEPT !.pc = "push_load", !.op = "free",
                                                                !.buf = b]]
         /\ UNCHANGED t_cache
pktbuf_free_enter(t, b) ==
    IF Len(t_cache[t]) < LOCAL_CACHE_SIZE
    THEN /\ pcall' = [pcall EXCEPT ![t] = [NoPoolCall EXCEPT !.pc = "ret", !.op = "free"]]
         /\ t_cache' = [t_cache EXCEPT ![t] = Append(@, b)]
    ELSE /\ pcall' = [pcall EXCEPT ![t] = [NoPoolCall EXCEPT !.pc = "push_load", !.op = "free",
                                                                !.buf = b]]
         /\ UNCHANGED t_cache

\* global_pop_bulk: acquire-load of top; an empty stack makes refill set
\* count = 0 and pktbuf_alloc return NULL.
GlobalPopLoad(t) ==
    /\ pcall[t].pc = "pop_load"
    /\ IF pool_top = 0
       THEN pcall' = [pcall EXCEPT ![t].pc = "ret", ![t].buf = NULL]
       ELSE LET actual == Min(pool_top, BULK_TRANSFER_SIZE)
            IN  pcall' = [pcall EXCEPT ![t].pc = "pop_cas", ![t].old_top = pool_top,
                                       ![t].actual = actual,
                                       ![t].new_top = pool_top - actual]
    /\ UNCHANGED <<pool_top, free_stack, t_cache>>

\* global_pop_bulk: the compare-exchange on top.  A failure re-runs the loop.
\* (A spurious failure of the weak form re-runs it from the same shared state.)
GlobalPopCas_keeps_top(t) ==
    /\ pcall[t].pc = "pop_cas"
    /\ IF pool_top = pcall[t].old_top
       THEN /\ pool_top' = pcall[t].old_top
            /\ pcall' = [pcall EXCEPT ![t].pc = "pop_copy",
                                      ![t].at_cas = [i \in 1 .. pcall[t].actual |->
                                                       free_stack[pcall[t].new_top + i - 1]]]
       ELSE /\ pcall' = [pcall EXCEPT ![t].pc = "pop_load"]
            /\ UNCHANGED pool_top
    /\ UNCHANGED <<free_stack, t_cache>>
GlobalPopCas(t) ==
    /\ pcall[t].pc = "pop_cas"
    /\ IF pool_top = pcall[t].old_top
       THEN /\ pool_top' = pcall[t].new_top
            /\ pcall' = [pcall EXCEPT ![t].pc = "pop_copy",
                                      ![t].at_cas = [i \in 1 .. pcall[t].actual |->
                                                       free_stack[pcall[t].new_top + i - 1]]]
       ELSE /\ pcall' = [pcall EXCEPT ![t].pc = "pop_load"]
            /\ UNCHANGED pool_top
    /\ UNCHANGED <<free_stack, t_cache>>

\* global_pop_bulk: out[i] = free_stack[new_top + i]; then refill sets
\* count = got and pktbuf_alloc returns items[--count].
GlobalPopCopy(t) ==
    /\ pcall[t].pc = "pop_copy"
    /\ LET got == [i \in 1 .. pcall[t].actual |-> free_stack[pcall[t].new_top + i - 1]]
       IN  /\ t_cache' = [t_cache EXCEPT ![t] = SubSeq(got, 1, Len(got) - 1)]
           /\ pcall' = [pcall EXCEPT ![t].pc = "ret", ![t].buf = got[Len(got)],
                                     ![t].at_cas = <<>>,
                                     ![t].exact = (got = pcall[t].at_cas)]
    /\ UNCHANGED <<pool_top, free_stack>>

\* global_push_bulk: acquire-load of top.
GlobalPushLoad(t) ==
    /\ pcall[t].pc = "push_load"
    /\ pcall' = [pcall EXCEPT ![t].pc = "push_write", ![t].old_top = pool_top,
                              ![t].new_top = pool_top + BULK_TRANSFER_SIZE]
    /\ UNCHANGED <<pool_top, free_stack, t_cache>>

\* global_push_bulk: the speculative writes free_stack[old_top + i] = bufs[i],
\* bufs being the last BULK_TRANSFER_SIZE items of the cache.
GlobalPushWrite(t) ==
    /\ pcall[t].pc = "push_write"
    /\ LET start_idx == Len(t_cache[t]) - BULK_TRANSFER_SIZE
       IN  free_stack' = [s \in DOMAIN free_stack |->
                            IF s >= pcall[t].old_top /\ s < pcall[t].new_top
                            THEN t_cache[t][start_idx + (s - pcall[t].old_top) + 1]
                            ELSE free_stack[s]]
    /\ pcall' = [pcall EXCEPT ![t].pc = "push_cas"]
    /\ UNCHANGED <<pool_top, t_cache>>

\* global_push_bulk: the compare-exchange on top.  On success flush subtracts
\* the returned count and pktbuf_free stores buf at items[count++].
GlobalPushCas_keep_count(t) ==
    /\ pcall[t].pc = "push_cas"
    /\ IF pool_top = pcall[t].old_top
       THEN /\ pool_top' = pcall[t].new_top
            /\ t_cache' = [t_cache EXCEPT ![t] = Append(@, pcall[t].buf)]
            /\ pcall' = [pcall EXCEPT ![t].pc = "ret", ![t].buf = NULL]
       ELSE /\ pcall' = [pcall EXCEPT ![t].pc = "push_load"]
            /\ UNCHANGED <<pool_top, t_cache>>
    /\ UNCHANGED free_stack
GlobalPushCas(t) ==
    /\ pcall[t].pc = "push_cas"
    /\ IF pool_top = pcall[t].old_top
       THEN /\ pool_top' = pcall[t].new_top
            /\ t_cache' = [t_cache EXCEPT ![t] =
                              Append(SubSeq(@, 1, Len(@) - BULK_TRANSFER_SIZE), pcall[t].buf)]
            /\ pcall' = [pcall EXCEPT ![t].pc = "ret", ![t].buf = NULL]
       ELSE /\ pcall' = [pcall EXCEPT ![t].pc = "push_load"]
            /\ UNCHANGED <<pool_top, t_cache>>
    /\ UNCHANGED free_stack

\* The steps a thread takes inside the pool, whoever called it.
PoolStep(t) ==
    \/ GlobalPopLoad(t)
    \/ GlobalPopCas(t)
    \/ GlobalPopCopy(t)
    \/ GlobalPushLoad(t)
    \/ GlobalPushWrite(t)
    \/ GlobalPushCas(t)

\* A thread of the pool-only model calls pktbuf_alloc.
CallAlloc(t) ==
    /\ pcall[t].pc = "idle"
    /\ pktbuf_alloc_enter(t)
    /\ UNCHANGED <<pool_top, free_stack, held, ringVars, neighVars, auxVars, pipeVars>>

\* A thread of the pool-only model calls pktbuf_free on a buffer it holds.
CallFree(t) ==
    /\ pcall[t].pc = "idle"
    /\ \E b \in DOMAIN held[t] :
         /\ held[t][b] > 0
         /\ held' = [held EXCEPT ![t][b] = @ - 1]
         /\ pktbuf_free_enter(t, b)
    /\ UNCHANGED <<pool_top, free_stack, ringVars, neighVars, auxVars, pipeVars>>

\* The call returns to the thread; an allocated buffer is now held by it.
CallReturn(t) ==
    /\ pcall[t].pc = "ret"
    /\ held' = IF pcall[t].op = "alloc" /\ pcall[t].buf # NULL
               THEN [held EXCEPT ![t][pcall[t].buf] = @ + 1]
               ELSE held
    /\ pcall' = [pcall EXCEPT ![t] = NoPoolCall]
    /\ UNCHANGED <<pool_top, free_stack, t_cache, ringVars, neighVars, auxVars, pipeVars>>

InitHeld == held = [t \in Threads |-> [b \in Bufs |-> 0]]

NextPool ==
    \/ \E t \in Threads : PoolStep(t) /\ UNCHANGED <<held, ringVars, neighVars, auxVars, pipeVars>>
    \/ \E t \in Threads : CallAlloc(t)
    \/ \E t \in Threads : CallFree(t)
    \/ \E t \in Threads : CallReturn(t)

\* The handles in the free set: free_stack[0, top) and every cache.
RECURSIVE SeqSum(_)
SeqSum(q) == IF q = <<>> THEN 0 ELSE q[1] + SeqSum(Tail(q))

FreeCount(b) ==
    Cardinality({s \in 0 .. pool_top - 1 : free_stack[s] = b})
    + SeqSum([t \in 1 .. Cardinality(Threads) |->
                 Cardinality({k \in 1 .. Len(t_cache[t - 1]) : t_cache[t - 1][k] = b})])

HeldCount == SeqSum([t \in 1 .. Cardinality(Threads) |->
                        SeqSum([b \in 1 .. PoolCap |-> held[t - 1][b]])])

CachedCount == SeqSum([t \in 1 .. Cardinality(Threads) |-> Len(t_cache[t - 1])])

Quiescent == \A t \in Threads : pcall[t].pc = "idle"

\* C1: no buffer handle is ever present twice in the free set (two slots of
\* free_stack[0, top), two caches, or a cache and the stack).
C1_NoDuplicateFree == \A b \in Bufs : FreeCount(b) <= 1

\* C20: the handles global_pop_bulk copies out are those that slots
\* [new_top, old_top) held when its compare-exchange on top succeeded.
C20_PopReturnsReserved == \A t \in Threads : pcall[t].exact

\* C21: no step changes a committed slot, a slot of free_stack[0, top): the
\* writes of global_push_bulk go to slots at or above the current top.
C21_CommittedSlotsKept ==
    [][\A i \in DOMAIN free_stack : i < pool_top => free_stack'[i] = free_stack[i]]_vars

\* pktbuf_pool_t.capacity
pool_capacity == Cardinality(DOMAIN free_stack)

\* C22: top stays within [0, capacity], and the slots global_push_bulk
\* writes, [old_top, new_top), lie below capacity.
C22_TopInRange ==
    /\ pool_top \in 0 .. pool_capacity
    /\ \A t \in Threads :
          pcall[t].pc \in {"push_write", "push_cas"} => pcall[t].new_top <= pool_capacity

\* A thread has written its handle above a top that a pop of the other
\* thread has moved since.
C22_Witness ==
    \E t \in Threads :
        /\ pcall[t].pc = "push_cas"
        /\ pcall[t].old_top # pool_top
        /\ pcall[t].new_top > 0
        /\ free_stack[pcall[t].old_top] # pcall[t].old_top + 1

\* The handles of a cache are pairwise distinct.
DistinctItems(q) == \A i, j \in 1 .. Len(q) : i # j => q[i] # q[j]

\* C23: a cache holds at most LOCAL_CACHE_SIZE handles, pairwise distinct;
\* only a refill of an empty cache (taking at most BULK_TRANSFER_SIZE) and a
\* flush of a full cache (returning BULK_TRANSFER_SIZE) change top.
C23_CacheInvariant ==
    /\ \A t \in Threads : Len(t_cache[t]) <= LOCAL_CACHE_SIZE
    /\ \A t \in Threads : DistinctItems(t_cache[t])
    /\ \A t \in Threads :
          /\ pcall[t].pc \in {"pop_load", "pop_cas", "pop_copy"} => t_cache[t] = <<>>
          /\ pcall[t].pc \in {"pop_cas", "pop_copy"} =>
                /\ pcall[t].old_top - pcall[t].new_top = pcall[t].actual
                /\ pcall[t].actual <= BULK_TRANSFER_SIZE
          /\ pcall[t].pc \in {"push_load", "push_write", "push_cas"} =>
                Len(t_cache[t]) = LOCAL_CACHE_SIZE
          /\ pcall[t].pc \in {"push_write", "push_cas"} =>
                pcall[t].new_top - pcall[t].old_top = BULK_TRANSFER_SIZE

\* C2: at every quiescent point, top + the sum of the cache counts + the
\* number of buffers held by callers equals the pool capacity.
C2_Conservation == Quiescent => pool_top + CachedCount + HeldCount = PoolCap

\* C2 witness: a quiescent point after a flush to and a refill from the
\* global stack, with buffers in a cache, in the stack and in flight.
C2_Witness ==
    /\ Quiescent
    /\ \E t \in Threads : Len(t_cache[t]) = LOCAL_CACHE_SIZE
    /\ HeldCount > 0
    /\ pool_top > 0
    /\ pool_top < PoolCap
    /\ \E s \in 0 .. pool_top - 1 : free_stack[s] # s + 1

(***************************************************************************)
(* The pool used by one thread (src/tests/test_suite.c, test_pktbuf_pool)  *)
(*                                                                         *)
(* Thread 0 alone calls pktbuf_alloc and pktbuf_free; call keeps the       *)
(* history of its calls: allocs, the results of the allocations made       *)
(* before the first free, up to the first NULL; last and prev, the two     *)
(* most recent calls with the handle returned or freed.                    *)
(***************************************************************************)

NoPoolOp == [op |-> "none", buf |-> NULL, full |-> FALSE]

FreshLog == [fn |-> "pktbuf", fresh |-> TRUE, allocs |-> <<>>,
             last |-> NoPoolOp, prev |-> NoPoolOp]

PoolLog == IF call.fn = "pktbuf" THEN call ELSE FreshLog

\* The history after a call op that returned, or was given, buf.
Logged(op, buf, full) ==
    LET log == PoolLog
        fresh == log.fresh /\ op = "alloc"
        open == log.allocs = <<>> \/ log.allocs[Len(log.allocs)] # NULL
    IN  [fn |-> "pktbuf", fresh |-> fresh,
         allocs |-> IF ~fresh THEN <<>>
                    ELSE IF open THEN Append(log.allocs, buf)
                    ELSE log.allocs,
         last |-> [op |-> op, buf |-> buf, full |-> full],
         prev |-> log.last]

\* The thread calls pktbuf_alloc.
SoloAlloc ==
    /\ call.fn \in {"none", "pktbuf"}
    /\ CallAlloc(0)

\* The thread is inside the pool.
SoloStep ==
    /\ call.fn \in {"none", "pktbuf"}
    /\ PoolStep(0)
    /\ UNCHANGED <<held, ringVars, neighVars, auxVars, pipeVars>>

\* The thread calls pktbuf_free on a buffer it holds.
SoloFree ==
    /\ call.fn \in {"none", "pktbuf"}
    /\ pcall[0].pc = "idle"
    /\ \E b \in Bufs :
         /\ held[0][b] > 0
         /\ held' = [held EXCEPT ![0][b] = @ - 1]
         /\ pktbuf_free_enter(0, b)
         /\ call' = Logged("free", b, Len(t_cache[0]) = LOCAL_CACHE_SIZE)
    /\ UNCHANGED <<pool_top, free_stack, ruleVars, ringVars, neighVars, pipeVars>>

\* The call returns; the result of an allocation enters the history.
SoloReturn ==
    /\ call.fn \in {"none", "pktbuf"}
    /\ pcall[0].pc = "ret"
    /\ held' = IF pcall[0].op = "alloc" /\ pcall[0].buf # NULL
               THEN [held EXCEPT ![0][pcall[0].buf] = @ + 1]
               ELSE held
    /\ call' = IF pcall[0].op = "alloc"
               THEN Logged("alloc", pcall[0].buf, FALSE)
               ELSE call
    /\ pcall' = [pcall EXCEPT ![0] = NoPoolCall]
    /\ UNCHANGED <<pool_top, free_stack, t_cache, ruleVars, ringVars, neighVars, pipeVars>>

NextSolo ==
    \/ SoloAlloc
    \/ SoloStep
    \/ SoloFree
    \/ SoloReturn

\* C17: the first PoolCap allocations from a fresh pool succeed with
\* pairwise distinct handles and the next one returns NULL.
C17_ExactlyCapacity ==
    (call.fn = "pktbuf" /\ call.fresh) =>
        /\ \A i \in 1 .. Len(call.allocs) :
              IF i <= PoolCap THEN call.allocs[i] \in Bufs ELSE call.allocs[i] = NULL
        /\ \A i, j \in 1 .. Min(Len(call.allocs), PoolCap) :
              i # j => call.allocs[i] # call.allocs[j]

\* The pool has been drained by PoolCap allocations and one more was made.
C17_Witness ==
    /\ call.fn = "pktbuf"
    /\ call.fresh
    /\ Len(call.allocs) = PoolCap + 1
    /\ call.allocs[PoolCap + 1] = NULL
    /\ \A b \in Bufs : held[0][b] = 1

\* C18: an allocation that directly follows a free returns the handle that
\* was freed.
C18_FreeThenAlloc ==
    (call.fn = "pktbuf" /\ call.last.op = "alloc" /\ call.prev.op = "free") =>
        call.last.buf = call.prev.buf

\* The free found the cache full and flushed to the global stack; the
\* allocation after it returned the freed handle.
C18_Witness ==
    /\ call.fn = "pktbuf"
    /\ call.last.op = "alloc"
    /\ call.prev.op = "free"
    /\ call.prev.full
    /\ call.last.buf = call.prev.buf
    /\ pool_top > 0

(***************************************************************************)
(* Two threads that flush (src/src/pktbuf.c)                               *)
(*                                                                         *)
(* Each thread allocates LOCAL_CACHE_SIZE + 1 buffers and then frees them: *)
(* the last free finds the cache full and flushes to the global stack.     *)
(* The pool holds the buffers of both threads.                             *)
(***************************************************************************)

\* Buffers a thread allocates before it frees them.
FlushKeep == LOCAL_CACHE_SIZE + 1

\* capacity passed to pktbuf_pool_init
FlushCap == FlushKeep * Cardinality(Threads)

\* pktbuf_pool_init(p, FlushCap)
InitFlushPool ==
    /\ pool_top = FlushCap
    /\ free_stack = [i \in 0 .. FlushCap - 1 |-> i + 1]
    /\ t_cache = [t \in Threads |-> <<>>]
    /\ pcall = [t \in Threads |-> NoPoolCall]
    /\ held = [t \in Threads |-> [b \in 1 .. FlushCap |-> 0]]

\* The number of buffers thread t holds.
HeldBy(t) == SeqSum(held[t])

\* The thread has not freed yet and allocates one more buffer.
FlushAlloc(t) ==
    /\ t_cache[t] = <<>>
    /\ HeldBy(t) < FlushKeep
    /\ CallAlloc(t)

\* The thread has all its buffers, or has begun to free them, and frees one.
FlushFree(t) ==
    /\ HeldBy(t) = FlushKeep \/ t_cache[t] # <<>>
    /\ CallFree(t)

NextFlush ==
    \/ \E t \in Threads : PoolStep(t) /\ UNCHANGED <<held, ringVars, neighVars, auxVars, pipeVars>>
    \/ \E t \in Threads : FlushAlloc(t)
    \/ \E t \in Threads : FlushFree(t)
    \/ \E t \in Threads : CallReturn(t)

(***************************************************************************)
(* Capture, workers and shutdown (src/src/rx_pcap.c, src/src/worker.c,     *)
(* src/src/main.c)                                                         *)
(*                                                                         *)
(* A ring call is two steps here: the acquire-load of the other side's     *)
(* index, which fixes the count, and the release-store of its own index.   *)
(* A buffer belongs to the consumer from the step that copies it out, but  *)
(* its slot is free for the producer only after the store of tail.         *)
(***************************************************************************)

\* Bounds of the pipeline model.  Both burst sizes are 32 in the source.
BurstSize == 2      \* RX_BURST_SIZE and WORKER_BURST_SIZE
MaxPackets == 4     \* frames the capture source delivers

RX_BURST_SIZE == BurstSize
WORKER_BURST_SIZE == BurstSize

\* The frames a worker may find in a buffer, by the header facts
\* process_packet branches on.
PktSet ==
    {[ethertype |-> "ARP",   arp_ok |-> TRUE,  ndp |-> FALSE, parse_ok |-> FALSE, rule |-> "NONE",  ttl_le1 |-> FALSE],
     [ethertype |-> "ARP",   arp_ok |-> FALSE, ndp |-> FALSE, parse_ok |-> FALSE, rule |-> "NONE",  ttl_le1 |-> FALSE],
     [ethertype |-> "IPV6",  arp_ok |-> FALSE, ndp |-> TRUE,  parse_ok |-> TRUE,  rule |-> "FWD",   ttl_le1 |-> FALSE],
     [ethertype |-> "OTHER", arp_ok |-> FALSE, ndp |-> FALSE, parse_ok |-> FALSE, rule |-> "NONE",  ttl_le1 |-> FALSE],
     [ethertype |-> "IPV4",  arp_ok |-> FALSE, ndp |-> FALSE, parse_ok |-> FALSE, rule |-> "NONE",  ttl_le1 |-> FALSE],
     [ethertype |-> "IPV4",  arp_ok |-> FALSE, ndp |-> FALSE, parse_ok |-> TRUE,  rule |-> "NONE",  ttl_le1 |-> FALSE],
     [ethertype |-> "IPV4",  arp_ok |-> FALSE, ndp |-> FALSE, parse_ok |-> TRUE,  rule |-> "DROP",  ttl_le1 |-> FALSE],
     [ethertype |-> "IPV4",  arp_ok |-> FALSE, ndp |-> FALSE, parse_ok |-> TRUE,  rule |-> "OTHER", ttl_le1 |-> FALSE],
     [ethertype |-> "IPV4",  arp_ok |-> FALSE, ndp |-> FALSE, parse_ok |-> TRUE,  rule |-> "FWD",   ttl_le1 |-> TRUE],
     [ethertype |-> "IPV6",  arp_ok |-> FALSE, ndp |-> FALSE, parse_ok |-> TRUE,  rule |-> "FWD",   ttl_le1 |-> TRUE],
     [ethertype |-> "IPV4",  arp_ok |-> FALSE, ndp |-> FALSE, parse_ok |-> TRUE,  rule |-> "FWD",   ttl_le1 |-> FALSE],
     [ethertype |-> "IPV6",  arp_ok |-> FALSE, ndp |-> FALSE, parse_ok |-> TRUE,  rule |-> "FWD",   ttl_le1 |-> FALSE]}

\* handle_control_packet: TRUE when the packet was consumed (and freed).
handle_control_packet(pkt) ==
    \/ pkt.ethertype = "ARP"
    \/ pkt.ethertype = "IPV6" /\ pkt.ndp

\* process_packet: what becomes of the buffer, "free" (pktbuf_free on this
\* path) or "tx" (appended to the TX batch, freed by the drain).
process_packet_expired_leaks(pkt) ==
    IF handle_control_packet(pkt) THEN "free"
    ELSE IF ~pkt.parse_ok THEN "free"
    ELSE IF pkt.rule = "NONE" THEN "free"
    ELSE IF pkt.rule = "DROP" THEN "free"
    ELSE IF pkt.rule = "FWD" THEN (IF pkt.ttl_le1 THEN "none" ELSE "tx")
    ELSE "free"
process_packet(pkt) ==
    IF handle_control_packet(pkt) THEN "free"
    ELSE IF ~pkt.parse_ok THEN "free"
    ELSE IF pkt.rule = "NONE" THEN "free"
    ELSE IF pkt.rule = "DROP" THEN "free"
    ELSE IF pkt.rule = "FWD" THEN (IF pkt.ttl_le1 THEN "free" ELSE "tx")
    ELSE "free"

\* rx_ctx_t.ring_count: the number of staging batches rx_start allocated.
RingCount == Cardinality(DOMAIN rx_batches)

\* A worker's position and locals.  burst, freed, via and tx_pos are history:
\* the burst last popped, the handles passed to pktbuf_free for each of its
\* positions, the path each position took, and the burst positions of the
\* entries of tx_bufs.  last_seq and prev_seq are history too: the capture
\* numbers of the frame process_packet ran on last and of the one before.
IdleWorker == [pc |-> "pop", batch |-> <<>>, tx_bufs |-> <<>>, tx_pos |-> <<>>,
               burst |-> <<>>, freed |-> <<>>, via |-> <<>>, last_n |-> 0,
               last_seq |-> 0, prev_seq |-> 0]

\* The capture thread's position and locals.  batch0 and freed are history:
\* the staging batch as the running ring_push_burst call received it, and
\* the handles its drop loop has passed to pktbuf_free so far.  stamp is
\* the capture log, kept in the behaviours that start with one: for each
\* buffer the number, in capture order, of the frame last copied into it.
IdleRx == [pc |-> "dispatch", brk |-> FALSE, n |-> 0, ring |-> 1,
           oversize |-> FALSE, cnt |-> 0, flush |-> FALSE,
           batch0 |-> <<>>, freed |-> <<>>, stamp |-> <<>>]

\* main up to rx_start's dispatch loop: workers started, rings empty,
\* staging batches calloc'ed, g_stop clear.
InitPipe ==
    /\ g_stop = FALSE
    /\ rx = IdleRx
    /\ rx_batches = [r \in Workers |-> <<>>]
    /\ rq = [r \in Workers |-> <<>>]
    /\ rq_busy = [r \in Workers |-> 0]
    /\ wk = [w \in Workers |-> IdleWorker]
    /\ pkts_left = MaxPackets

\* The same with the capture log: no buffer holds a frame yet.
InitPipeLogged ==
    /\ g_stop = FALSE
    /\ rx = [IdleRx EXCEPT !.stamp = [b \in Bufs |-> 0]]
    /\ rx_batches = [r \in Workers |-> <<>>]
    /\ rq = [r \in Workers |-> <<>>]
    /\ rq_busy = [r \in Workers |-> 0]
    /\ wk = [w \in Workers |-> IdleWorker]
    /\ pkts_left = MaxPackets

\* The same with a ring_count of RxRings, a power of two (rx_start refuses
\* any other).  The workers of the rings above Workers have been started
\* and have not run yet.
RxRingLog == 1
RxRings == Pow2(RxRingLog)

InitPipeRings ==
    /\ g_stop = FALSE
    /\ rx = IdleRx
    /\ rx_batches = [r \in 1 .. RxRings |-> <<>>]
    /\ rq = [r \in 1 .. RxRings |-> <<>>]
    /\ rq_busy = [r \in 1 .. RxRings |-> 0]
    /\ wk = [w \in Workers |-> IdleWorker]
    /\ pkts_left = MaxPackets

\* handle_signal: g_stop = 1; rx_stop() calls pcap_breakloop while the
\* capture handle is open.
HandleSignal ==
    /\ g_stop' = TRUE
    /\ rx' = IF rx.pc \in {"returned", "done"} THEN rx ELSE [rx EXCEPT !.brk = TRUE]
    /\ ~g_stop \/ rx' # rx
    /\ UNCHANGED <<rx_batches, rq, rq_busy, wk, pkts_left, poolVars, held, ringVars, neighVars, auxVars>>

\* pcap_dispatch hands a frame to pcap_callback, which calls pktbuf_alloc.
\* The frame's caplen may exceed the buffer; its ring is the flow hash or the
\* round-robin counter masked by ring_count - 1, any ring.
RxFrame ==
    /\ rx.pc = "dispatch"
    /\ ~rx.brk
    /\ rx.n < RX_BURST_SIZE
    /\ pkts_left > 0
    /\ pcall[0].pc = "idle"
    /\ pkts_left' = pkts_left - 1
    /\ \E over \in BOOLEAN, r \in DOMAIN rx_batches :
         rx' = [rx EXCEPT !.pc = "cb_alloc", !.oversize = over, !.ring = r, !.flush = FALSE]
    /\ pktbuf_alloc_enter(0)
    /\ UNCHANGED <<g_stop, rx_batches, rq, rq_busy, wk, pool_top, free_stack, held,
                   ringVars, neighVars, auxVars>>

\* pcap_callback after pktbuf_alloc returned: no buffer, an oversized frame,
\* or the frame is copied into the buffer, which joins the staging batch of
\* its ring.
RxAllocated ==
    /\ rx.pc = "cb_alloc"
    /\ pcall[0].pc = "ret"
    /\ LET b == pcall[0].buf
       IN  IF b = NULL
           THEN /\ rx' = [rx EXCEPT !.pc = "dispatch", !.n = rx.n + 1]
                /\ pcall' = [pcall EXCEPT ![0] = NoPoolCall]
                /\ UNCHANGED <<rx_batches, t_cache>>
           ELSE IF rx.oversize
           THEN /\ rx' = [rx EXCEPT !.pc = "cb_oversize"]
                /\ pktbuf_free_enter(0, b)
                /\ UNCHANGED rx_batches
           ELSE /\ rx_batches' = [rx_batches EXCEPT ![rx.ring] = Append(@, b)]
                /\ LET stamp == IF rx.stamp = <<>> THEN <<>>
                                ELSE [rx.stamp EXCEPT ![b] = MaxPackets - pkts_left]
                   IN  rx' = IF Len(rx_batches[rx.ring]) + 1 = RX_BURST_SIZE
                             THEN [rx EXCEPT !.pc = "push", !.stamp = stamp]
                             ELSE [rx EXCEPT !.pc = "dispatch", !.n = rx.n + 1,
                                             !.stamp = stamp]
                /\ pcall' = [pcall EXCEPT ![0] = NoPoolCall]
                /\ UNCHANGED t_cache
    /\ UNCHANGED <<g_stop, rq, rq_busy, wk, pkts_left, pool_top, free_stack, held,
                   ringVars, neighVars, auxVars>>

\* pcap_callback after the pktbuf_free of an oversized frame's buffer.
RxOversizeFreed ==
    /\ rx.pc = "cb_oversize"
    /\ pcall[0].pc = "ret"
    /\ pcall' = [pcall EXCEPT ![0] = NoPoolCall]
    /\ rx' = [rx EXCEPT !.pc = "dispatch", !.n = rx.n + 1]
    /\ UNCHANGED <<g_stop, rx_batches, rq, rq_busy, wk, pkts_left, pool_top, free_stack,
                   t_cache, held, ringVars, neighVars, auxVars>>

\* ring_push_burst of the staging batch: load of tail and the clamp.  A full
\* ring returns 0 at once.
RxPushLoad ==
    /\ rx.pc = "push"
    /\ LET available == ring_capacity - (Len(rq[rx.ring]) + rq_busy[rx.ring])
           count == Min(Len(rx_batches[rx.ring]), available)
       IN  rx' = [rx EXCEPT !.cnt = count, !.pc = IF count = 0 THEN "drop" ELSE "store",
                           !.batch0 = rx_batches[rx.ring], !.freed = <<>>]
    /\ UNCHANGED <<g_stop, rx_batches, rq, rq_busy, wk, pkts_left, poolVars, held,
                   ringVars, neighVars, auxVars>>

\* ring_push_burst: the slots are written and head is stored; the first cnt
\* buffers of the batch now belong to the ring.
RxPushStore_keeps_batch ==
    /\ rx.pc = "store"
    /\ rq' = [rq EXCEPT ![rx.ring] = @ \o SubSeq(rx_batches[rx.ring], 1, rx.cnt)]
    /\ rx' = [rx EXCEPT !.pc = "drop"]
    /\ UNCHANGED <<g_stop, rx_batches, rq_busy, wk, pkts_left, poolVars, held, ringVars, neighVars, auxVars>>
RxPushStore ==
    /\ rx.pc = "store"
    /\ rq' = [rq EXCEPT ![rx.ring] = @ \o SubSeq(rx_batches[rx.ring], 1, rx.cnt)]
    /\ rx_batches' = [rx_batches EXCEPT ![rx.ring] = SubSeq(@, rx.cnt + 1, Len(@))]
    /\ rx' = [rx EXCEPT !.pc = "drop"]
    /\ UNCHANGED <<g_stop, rq_busy, wk, pkts_left, poolVars, held, ringVars, neighVars, auxVars>>

\* After the drop loop and "count = 0": the callback returns into
\* pcap_dispatch, or flush_rx_buffers goes on to the next ring.
AfterPush ==
    IF rx.flush
    THEN [rx EXCEPT !.pc = "flush", !.ring = rx.ring + 1, !.batch0 = <<>>, !.freed = <<>>]
    ELSE [rx EXCEPT !.pc = "dispatch", !.n = rx.n + 1, !.batch0 = <<>>, !.freed = <<>>]

\* The drop loop: pktbuf_free of the next buffer that did not fit the ring.
RxDrop ==
    /\ rx.pc = "drop"
    /\ pcall[0].pc = "idle"
    /\ IF rx_batches[rx.ring] = <<>>
       THEN /\ rx' = AfterPush
            /\ UNCHANGED <<rx_batches, pcall, t_cache>>
       ELSE /\ pktbuf_free_enter(0, Head(rx_batches[rx.ring]))
            /\ rx_batches' = [rx_batches EXCEPT ![rx.ring] = Tail(@)]
            /\ rx' = [rx EXCEPT !.pc = "dropping",
                                !.freed = Append(@, Head(rx_batches[rx.ring]))]
    /\ UNCHANGED <<g_stop, rq, rq_busy, wk, pkts_left, pool_top, free_stack, held,
                   ringVars, neighVars, auxVars>>

RxDropped ==
    /\ rx.pc = "dropping"
    /\ pcall[0].pc = "ret"
    /\ pcall' = [pcall EXCEPT ![0] = NoPoolCall]
    /\ rx' = [rx EXCEPT !.pc = "drop"]
    /\ UNCHANGED <<g_stop, rx_batches, rq, rq_busy, wk, pkts_left, pool_top, free_stack,
                   t_cache, held, ringVars, neighVars, auxVars>>

\* pcap_dispatch returns rc >= 0 (burst complete, timeout, or a break after
\* frames were processed): rx_start calls flush_rx_buffers.
RxDispatchReturn ==
    /\ rx.pc = "dispatch"
    /\ rx.brk => rx.n > 0
    /\ rx' = [rx EXCEPT !.pc = "flush", !.ring = 1, !.flush = TRUE]
    /\ UNCHANGED <<g_stop, rx_batches, rq, rq_busy, wk, pkts_left, poolVars, held,
                   ringVars, neighVars, auxVars>>

\* pcap_dispatch returns -2 (pcap_breakloop, no frame processed in this
\* call) or another error before any frame: rx_start leaves its loop and
\* returns without a flush.
RxDispatchBreak ==
    /\ rx.pc = "dispatch"
    /\ rx.n = 0
    /\ rx' = [rx EXCEPT !.pc = "returned"]
    /\ UNCHANGED <<g_stop, rx_batches, rq, rq_busy, wk, pkts_left, poolVars, held,
                   ringVars, neighVars, auxVars>>

\* flush_rx_buffers: one iteration of its loop over the rings, then the next
\* pcap_dispatch call.
RxFlush_skips_last ==
    /\ rx.pc = "flush"
    /\ rx' = IF rx.ring >= RingCount
             THEN [rx EXCEPT !.pc = "dispatch", !.n = 0, !.ring = 1, !.flush = FALSE]
             ELSE IF Len(rx_batches[rx.ring]) > 0
             THEN [rx EXCEPT !.pc = "push"]
             ELSE [rx EXCEPT !.ring = rx.ring + 1]
    /\ UNCHANGED <<g_stop, rx_batches, rq, rq_busy, wk, pkts_left, poolVars, held,
                   ringVars, neighVars, auxVars>>
RxFlush ==
    /\ rx.pc = "flush"
    /\ rx' = IF rx.ring > RingCount
             THEN [rx EXCEPT !.pc = "dispatch", !.n = 0, !.ring = 1, !.flush = FALSE]
             ELSE IF Len(rx_batches[rx.ring]) > 0
             THEN [rx EXCEPT !.pc = "push"]
             ELSE [rx EXCEPT !.ring = rx.ring + 1]
    /\ UNCHANGED <<g_stop, rx_batches, rq, rq_busy, wk, pkts_left, poolVars, held,
                   ringVars, neighVars, auxVars>>

\* main after rx_start returned: g_stop = 1.
MainStop ==
    /\ rx.pc = "returned"
    /\ g_stop' = TRUE
    /\ rx' = [rx EXCEPT !.pc = "done"]
    /\ UNCHANGED <<rx_batches, rq, rq_busy, wk, pkts_left, poolVars, held, ringVars, neighVars, auxVars>>

\* ring_pop_burst copying the slots out from the newest to the oldest.
WkPopLoad_newest_first(w) ==
    /\ wk[w].pc = "pop"
    /\ LET n == Min(WORKER_BURST_SIZE, Len(rq[w]))
       IN  IF n = 0
           THEN /\ wk' = [wk EXCEPT ![w].pc = "chk_stop", ![w].last_n = 0]
                /\ UNCHANGED <<rq, rq_busy>>
           ELSE /\ wk' = [wk EXCEPT ![w].pc = "pop_store", ![w].last_n = n,
                                    ![w].batch = [i \in 1 .. n |-> rq[w][n + 1 - i]],
                                    ![w].burst = SubSeq(rq[w], 1, n),
                                    ![w].freed = [i \in 1 .. n |-> <<>>],
                                    ![w].via = <<>>]
                /\ rq' = [rq EXCEPT ![w] = SubSeq(@, n + 1, Len(@))]
                /\ rq_busy' = [rq_busy EXCEPT ![w] = n]
    /\ UNCHANGED <<g_stop, rx, rx_batches, pkts_left, poolVars, held, ringVars, neighVars, auxVars>>
\* worker_main: ring_pop_burst loads head and copies the pointers out; on an
\* empty ring it returns 0 at once.
WkPopLoad(w) ==
    /\ wk[w].pc = "pop"
    /\ LET n == Min(WORKER_BURST_SIZE, Len(rq[w]))
       IN  IF n = 0
           THEN /\ wk' = [wk EXCEPT ![w].pc = "chk_stop", ![w].last_n = 0]
                /\ UNCHANGED <<rq, rq_busy>>
           ELSE /\ wk' = [wk EXCEPT ![w].pc = "pop_store", ![w].last_n = n,
                                    ![w].batch = SubSeq(rq[w], 1, n),
                                    ![w].burst = SubSeq(rq[w], 1, n),
                                    ![w].freed = [i \in 1 .. n |-> <<>>],
                                    ![w].via = <<>>]
                /\ rq' = [rq EXCEPT ![w] = SubSeq(@, n + 1, Len(@))]
                /\ rq_busy' = [rq_busy EXCEPT ![w] = n]
    /\ UNCHANGED <<g_stop, rx, rx_batches, pkts_left, poolVars, held, ringVars, neighVars, auxVars>>

\* ring_pop_burst stores tail and returns n > 0.
WkPopStore(w) ==
    /\ wk[w].pc = "pop_store"
    /\ rq_busy' = [rq_busy EXCEPT ![w] = 0]
    /\ wk' = [wk EXCEPT ![w].pc = "process"]
    /\ UNCHANGED <<g_stop, rx, rx_batches, rq, pkts_left, poolVars, held, ringVars, neighVars, auxVars>>

\* worker_main after a pop of 0: break if g_stop is set, else sleep and retry.
WkCheckStop(w) ==
    /\ wk[w].pc = "chk_stop"
    /\ wk' = [wk EXCEPT ![w].pc = IF g_stop THEN "done" ELSE "pop"]
    /\ UNCHANGED <<g_stop, rx, rx_batches, rq, rq_busy, pkts_left, poolVars, held,
                   ringVars, neighVars, auxVars>>

\* process_packet on the next buffer of the burst, whatever frame it holds.
WkProcess(w) ==
    /\ wk[w].pc = "process"
    /\ wk[w].batch # <<>>
    /\ pcall[w].pc = "idle"
    /\ \E pkt \in PktSet :
         LET b == Head(wk[w].batch)
             i == Len(wk[w].burst) - Len(wk[w].batch) + 1
             path == process_packet(pkt)
             seen == IF rx.stamp = <<>> THEN wk[w]
                     ELSE [wk[w] EXCEPT !.last_seq = rx.stamp[b], !.prev_seq = wk[w].last_seq]
         IN  IF path = "free"
             THEN /\ pktbuf_free_enter(w, b)
                  /\ wk' = [wk EXCEPT ![w] = seen, ![w].pc = "freeing", ![w].batch = Tail(@),
                                      ![w].freed[i] = Append(@, b),
                                      ![w].via = Append(@, path)]
             ELSE IF path = "tx"
             THEN /\ wk' = [wk EXCEPT ![w] = seen, ![w].batch = Tail(@), ![w].tx_bufs = Append(@, b),
                                      ![w].tx_pos = Append(@, i),
                                      ![w].via = Append(@, path)]
                  /\ UNCHANGED <<pcall, t_cache>>
             ELSE /\ wk' = [wk EXCEPT ![w] = seen, ![w].batch = Tail(@), ![w].via = Append(@, path)]
                  /\ UNCHANGED <<pcall, t_cache>>
    /\ UNCHANGED <<g_stop, rx, rx_batches, rq, rq_busy, pkts_left, pool_top, free_stack, held,
                   ringVars, neighVars, auxVars>>

\* A pktbuf_free called by the worker has returned.
WkFreed(w) ==
    /\ wk[w].pc \in {"freeing", "tx_freeing"}
    /\ pcall[w].pc = "ret"
    /\ pcall' = [pcall EXCEPT ![w] = NoPoolCall]
    /\ wk' = [wk EXCEPT ![w].pc = IF wk[w].pc = "freeing" THEN "process" ELSE "drain"]
    /\ UNCHANGED <<g_stop, rx, rx_batches, rq, rq_busy, pkts_left, pool_top, free_stack,
                   t_cache, held, ringVars, neighVars, auxVars>>

\* worker_main going back to the pop without the send and the free loop.
WkSend_skips_drain(w) ==
    /\ wk[w].pc = "process"
    /\ wk[w].batch = <<>>
    /\ wk' = [wk EXCEPT ![w].pc = "pop"]
    /\ UNCHANGED <<g_stop, rx, rx_batches, rq, rq_busy, pkts_left, poolVars, held,
                   ringVars, neighVars, auxVars>>
\* worker_main after the burst: tx_send_batch if the TX batch is not empty
\* (the kernel accepts any number of the frames), then the free loop.
WkSend(w) ==
    /\ wk[w].pc = "process"
    /\ wk[w].batch = <<>>
    /\ wk' = [wk EXCEPT ![w].pc = IF wk[w].tx_bufs = <<>> THEN "pop" ELSE "drain"]
    /\ UNCHANGED <<g_stop, rx, rx_batches, rq, rq_busy, pkts_left, poolVars, held,
                   ringVars, neighVars, auxVars>>

\* The free loop over tx_bufs, then tx_count = 0.
WkDrain(w) ==
    /\ wk[w].pc = "drain"
    /\ pcall[w].pc = "idle"
    /\ IF wk[w].tx_bufs = <<>>
       THEN /\ wk' = [wk EXCEPT ![w].pc = "pop"]
            /\ UNCHANGED <<pcall, t_cache>>
       ELSE /\ pktbuf_free_enter(w, Head(wk[w].tx_bufs))
            /\ wk' = [wk EXCEPT ![w].pc = "tx_freeing", ![w].tx_bufs = Tail(@),
                                ![w].tx_pos = Tail(@),
                                ![w].freed[Head(wk[w].tx_pos)] =
                                    Append(@, Head(wk[w].tx_bufs))]
    /\ UNCHANGED <<g_stop, rx, rx_batches, rq, rq_busy, pkts_left, pool_top, free_stack, held,
                   ringVars, neighVars, auxVars>>

NextPipe ==
    \/ \E t \in Threads : PoolStep(t) /\ UNCHANGED <<held, ringVars, neighVars, auxVars, pipeVars>>
    \/ HandleSignal
    \/ RxFrame
    \/ RxAllocated
    \/ RxOversizeFreed
    \/ RxPushLoad
    \/ RxPushStore
    \/ RxDrop
    \/ RxDropped
    \/ RxDispatchReturn
    \/ RxDispatchBreak
    \/ RxFlush
    \/ MainStop
    \/ \E w \in Workers : WkPopLoad(w)
    \/ \E w \in Workers : WkPopStore(w)
    \/ \E w \in Workers : WkCheckStop(w)
    \/ \E w \in Workers : WkProcess(w)
    \/ \E w \in Workers : WkFreed(w)
    \/ \E w \in Workers : WkSend(w)
    \/ \E w \in Workers : WkDrain(w)

\* The capture thread alone, its steps inside the pool included; the rings
\* are not drained.
NextRx ==
    \/ PoolStep(0) /\ UNCHANGED <<held, ringVars, neighVars, auxVars, pipeVars>>
    \/ HandleSignal
    \/ RxFrame
    \/ RxAllocated
    \/ RxOversizeFreed
    \/ RxPushLoad
    \/ RxPushStore
    \/ RxDrop
    \/ RxDropped
    \/ RxDispatchReturn
    \/ RxDispatchBreak
    \/ RxFlush
    \/ MainStop

\* The number of places that hold buffer b.
Occ(q, b) == Cardinality({k \in 1 .. Len(q) : q[k] = b})

\* Buffers on their way between two places inside a call: the slots a
\* popper has reserved by its compare-exchange and not yet copied out, the
\* buffer a returning pktbuf_alloc hands to the capture callback, and the
\* buffer a slow-path pktbuf_free has not yet stored in the cache.
TransitCount(b) ==
    SeqSum([t \in 1 .. Cardinality(Threads) |->
               (IF pcall[t - 1].pc = "pop_copy"
                THEN Cardinality({s \in pcall[t - 1].new_top .. pcall[t - 1].old_top - 1 :
                                     free_stack[s] = b})
                ELSE 0)
               + (IF pcall[t - 1].pc # "idle" /\ pcall[t - 1].buf = b THEN 1 ELSE 0)])

StageCount(b) ==
    SeqSum([w \in 1 .. Cardinality(Workers) |->
               Occ(rx_batches[w], b) + Occ(rq[w], b)
               + Occ(wk[w].batch, b) + Occ(wk[w].tx_bufs, b)])

OwnCount(b) == FreeCount(b) + StageCount(b) + TransitCount(b)

\* C3: in the running pipeline every buffer is at all times in exactly one
\* place (global free stack, one cache, one staging batch, one ring slot, one
\* popped burst, one TX batch, or on its way between two of them inside one
\* thread's call), never in two.
C3_OnePlace == \A b \in Bufs : OwnCount(b) = 1

\* The capture loop has exited: rx_start has left its dispatch loop.
CaptureExited == rx.pc \in {"returned", "done"}

\* C7: a worker terminates only right after a burst pop that returned 0, only
\* with the stop flag set, and, once the capture thread pushes no more, only
\* with its ring drained to emptiness.
C7_StopAfterDrain ==
    [][\A w \in Workers :
         (wk[w].pc # "done" /\ wk'[w].pc = "done") =>
             /\ wk[w].pc = "chk_stop"
             /\ wk[w].last_n = 0
             /\ g_stop
             /\ (CaptureExited => rq'[w] = <<>>)]_vars

\* The safety part of C7 that the code keeps: termination only after a pop
\* of 0 and only with the stop flag set.
WorkerExitGuarded ==
    [][\A w \in Workers :
         (wk[w].pc # "done" /\ wk'[w].pc = "done") =>
             /\ wk[w].pc = "chk_stop"
             /\ wk[w].last_n = 0
             /\ g_stop]_vars

\* After shutdown: rx_start has returned, main has set g_stop, and every
\* worker has left its loop (worker_join returns).
Shutdown ==
    /\ rx.pc = "done"
    /\ \A w \in Workers : wk[w].pc = "done"

\* C8: after shutdown no buffer remains in a staging batch, a ring or a TX
\* batch, and every buffer of the pool is in the free set.
C8_NothingHeld ==
    Shutdown =>
        /\ \A r \in Workers : rx_batches[r] = <<>> /\ rq[r] = <<>>
        /\ \A w \in Workers : wk[w].tx_bufs = <<>>
        /\ \A b \in Bufs : FreeCount(b) = 1

\* A worker is between bursts: the burst last popped has been through
\* process_packet and the TX drain.
BurstDone(w) == wk[w].pc \in {"pop", "chk_stop", "done"}

\* C9: every buffer of a popped burst is passed to pktbuf_free at most once
\* at any time, and exactly once, itself, by the end of the burst's TX drain.
C9_FreedOnce ==
    \A w \in Workers :
        /\ \A i \in 1 .. Len(wk[w].burst) : Len(wk[w].freed[i]) <= 1
        /\ BurstDone(w) =>
             \A i \in 1 .. Len(wk[w].burst) : wk[w].freed[i] = <<wk[w].burst[i]>>

\* C9 witness: a finished burst whose first buffer was forwarded (freed by
\* the drain) and whose second was freed inside process_packet.
C9_Witness ==
    \E w \in Workers :
        /\ wk[w].pc = "pop"
        /\ wk[w].via = <<"tx", "free">>
        /\ \A i \in 1 .. 2 : Len(wk[w].freed[i]) = 1

\* The part of the batch the running ring_push_burst call did not accept.
Unpushed == SubSeq(rx.batch0, rx.cnt + 1, Len(rx.batch0))

\* In and after the drop loop: the handles freed so far and those still to
\* free are the unpushed tail of the batch, in order, and the ring is one of
\* the rings of the context.
C25_DropLoop ==
    rx.pc \in {"drop", "dropping"} =>
        /\ rx.ring \in 1 .. RingCount
        /\ rx.freed \o rx_batches[rx.ring] = Unpushed
        /\ rx.pc = "dropping" => pcall[0].op = "free"

\* The capture thread's step is a call pktbuf_free(pool, b): b goes into the
\* thread's cache at once or is the argument of the flush that runs first.
RxFrees(b) ==
    /\ pcall'[0].op = "free"
    /\ \/ pcall'[0].pc = "ret" /\ t_cache'[0] = Append(t_cache[0], b)
       \/ pcall'[0].pc = "push_load" /\ pcall'[0].buf = b

\* The capture thread's steps that move a handle: the callback after
\* pktbuf_alloc, the burst push, a pass of the drop loop, and the return
\* from it.
C25_Moves ==
    /\ (rx.pc = "cb_alloc" /\ rx'.pc # "cb_alloc" /\ pcall[0].buf # NULL) =>
          IF rx.oversize
          THEN /\ rx_batches' = rx_batches
               /\ rq' = rq
               /\ RxFrees(pcall[0].buf)
          ELSE /\ rx.ring \in 1 .. RingCount
               /\ rx_batches' = [rx_batches EXCEPT ![rx.ring] = Append(@, pcall[0].buf)]
               /\ rq' = rq
               /\ pcall'[0].pc = "idle"
    /\ (rx.pc = "store" /\ rx'.pc # "store") =>
          /\ rx.ring \in 1 .. RingCount
          /\ rq' = [rq EXCEPT ![rx.ring] = @ \o SubSeq(rx.batch0, 1, rx.cnt)]
          /\ rx_batches' = [rx_batches EXCEPT ![rx.ring] = Unpushed]
          /\ pcall' = pcall
    /\ (rx.pc = "drop" /\ rx'.pc = "dropping") =>
          /\ RxFrees(Head(rx_batches[rx.ring]))
          /\ rx'.freed = Append(rx.freed, Head(rx_batches[rx.ring]))
          /\ rq' = rq
    /\ (rx.pc = "drop" /\ rx'.pc \notin {"drop", "dropping"}) =>
          /\ rx.freed = Unpushed
          /\ rx_batches'[rx.ring] = <<>>
          /\ rq' = rq

Staged == SeqSum([r \in 1 .. RingCount |-> Len(rx_batches[r])])

TX_BATCH_MAX == 2 * BurstSize

\* worker_t.tx_count: the frames appended to the TX batch in this burst.  The
\* free loop of worker_main leaves it alone and the store after the loop
\* clears it, so during the loop it is still the number appended.
tx_count(w) ==
    IF wk[w].pc \in {"drain", "tx_freeing"}
    THEN Cardinality({i \in DOMAIN wk[w].via : wk[w].via[i] = "tx"})
    ELSE Len(wk[w].tx_bufs)

\* The worker is about to call ring_pop_burst, or inside it.
BurstWait(w) == wk[w].pc \in {"pop", "pop_store"}

\* C32: a worker's tx_count is within 0 .. WORKER_BURST_SIZE in every
\* reachable state, so the batch never exceeds the sender's cap, and tx_count
\* is 0 whenever the worker is about to burst-pop.
C32_TxCountBounded ==
    \A w \in Workers :
        /\ tx_count(w) \in 0 .. WORKER_BURST_SIZE
        /\ tx_count(w) <= TX_BATCH_MAX
        /\ BurstWait(w) => tx_count(w) = 0

\* A worker hands a full TX batch to the sender.
C32_Witness ==
    \E w \in Workers : wk[w].pc = "drain" /\ Len(wk[w].tx_bufs) = WORKER_BURST_SIZE

(***************************************************************************)
(* One worker's packet counters (src/src/worker.c)                         *)
(*                                                                         *)
(* worker_main burst by burst: the pop, process_packet on each buffer, the *)
(* send.  The ring is a source of bursts of 1 .. WORKER_BURST_SIZE         *)
(* buffers; the pool is not looked at.                                     *)
(***************************************************************************)

\* The counters after process_packet on pkt: pkts_dropped++ on every path
\* that frees a data packet, nothing on the control path (ctrl counts the
\* packets handle_control_packet consumed, which the code does not count),
\* tx_count++ on the append to the TX batch.
process_packet_counts(c, pkt) ==
    IF handle_control_packet(pkt) THEN [c EXCEPT !.ctrl = @ + 1]
    ELSE IF process_packet(pkt) = "tx" THEN [c EXCEPT !.tx_count = @ + 1]
    ELSE [c EXCEPT !.pkts_dropped = @ + 1]

\* The counters after worker_main's send of the tx_count batched frames of
\* which tx_send_batch reported sent, and the reset of tx_count.
drain_counts_forgets_unsent(c, sent) ==
    [c EXCEPT !.pkts_forwarded = @ + sent, !.tx_count = 0]
drain_counts(c, sent) ==
    [c EXCEPT !.pkts_forwarded = @ + sent,
              !.pkts_dropped = @ + (c.tx_count - sent),
              !.tx_count = 0]

\* The counters alone.
Counters(c) ==
    [pkts_in |-> c.pkts_in, pkts_forwarded |-> c.pkts_forwarded,
     pkts_dropped |-> c.pkts_dropped, ctrl |-> c.ctrl, tx_count |-> c.tx_count]

\* main's calloc and worker_init: every counter 0.  left is the part of the
\* burst not yet processed; ev and prev are history, the last step and the
\* counters before it.
CountStart ==
    /\ call.fn = "none"
    /\ call' = [fn |-> "count", pc |-> "pop", left |-> 0,
                pkts_in |-> 0, pkts_forwarded |-> 0, pkts_dropped |-> 0,
                ctrl |-> 0, tx_count |-> 0,
                ev |-> [op |-> "init"], prev |-> [op |-> "init"]]
    /\ UNCHANGED <<ruleVars, ringVars, neighVars, poolVars, held, pipeVars>>

\* ring_pop_burst returns n > 0 (a return of 0 changes nothing): pkts_in += n.
CountPop ==
    /\ call.fn = "count"
    /\ call.pc = "pop"
    /\ \E n \in 1 .. WORKER_BURST_SIZE :
         /\ call.pkts_in + n <= MaxPackets
         /\ call' = [call EXCEPT !.pc = "process", !.left = n, !.pkts_in = @ + n,
                                 !.ev = [op |-> "pop", n |-> n],
                                 !.prev = Counters(call)]
    /\ UNCHANGED <<ruleVars, ringVars, neighVars, poolVars, held, pipeVars>>

\* process_packet on the next buffer of the burst.
CountProcess ==
    /\ call.fn = "count"
    /\ call.pc = "process"
    /\ call.left > 0
    /\ \E pkt \in PktSet :
         call' = [process_packet_counts(call, pkt) EXCEPT
                     !.left = @ - 1,
                     !.ev = [op |-> "packet", pkt |-> pkt],
                     !.prev = Counters(call)]
    /\ UNCHANGED <<ruleVars, ringVars, neighVars, poolVars, held, pipeVars>>

\* After the burst: with tx_count > 0, tx_send_batch (sendmmsg accepts any
\* number of the frames, or fails, which tx_send_batch reports as 0), the
\* counters and tx_count = 0; then back to the pop.
CountSend ==
    /\ call.fn = "count"
    /\ call.pc = "process"
    /\ call.left = 0
    /\ IF call.tx_count = 0
       THEN call' = [call EXCEPT !.pc = "pop", !.ev = [op |-> "nosend"],
                                 !.prev = Counters(call)]
       ELSE \E sent \in 0 .. Min(call.tx_count, TX_BATCH_MAX) :
                call' = [drain_counts(call, sent) EXCEPT
                            !.pc = "pop",
                            !.ev = [op |-> "send", k |-> call.tx_count, sent |-> sent],
                            !.prev = Counters(call)]
    /\ UNCHANGED <<ruleVars, ringVars, neighVars, poolVars, held, pipeVars>>

NextCount ==
    \/ CountStart
    \/ CountPop
    \/ CountProcess
    \/ CountSend

\* C33: at every return of a worker to the burst-pop, pkts_in equals
\* pkts_forwarded + pkts_dropped + the number of control packets consumed;
\* a send of k batched frames of which the sender accepted s adds exactly s
\* to pkts_forwarded and exactly k - s to pkts_dropped, and every data
\* packet that is not appended to the TX batch adds exactly 1 to
\* pkts_dropped.
C33_CountersBalance ==
    call.fn = "count" =>
        /\ call.pc = "pop" =>
              call.pkts_in = call.pkts_forwarded + call.pkts_dropped + call.ctrl
        /\ call.ev.op = "send" =>
              /\ call.ev.sent \in 0 .. call.ev.k
              /\ call.pkts_forwarded = call.prev.pkts_forwarded + call.ev.sent
              /\ call.pkts_dropped = call.prev.pkts_dropped + (call.ev.k - call.ev.sent)
        /\ call.ev.op = "packet" =>
              /\ call.pkts_forwarded = call.prev.pkts_forwarded
              /\ call.pkts_dropped - call.prev.pkts_dropped =
                    IF ~handle_control_packet(call.ev.pkt)
                       /\ call.tx_count = call.prev.tx_count
                    THEN 1 ELSE 0

\* A send of a full batch of which the sender took some and refused some,
\* after a control packet and a dropped data packet.
C33_Witness ==
    /\ call.fn = "count"
    /\ call.ev.op = "send"
    /\ call.ev.sent \in 1 .. call.ev.k - 1
    /\ call.ctrl > 0
    /\ call.prev.pkts_dropped > 0

\* C40: the frames delivered to a worker are processed by it in the order
\* they were captured, so two frames of one flow, which share a ring, are
\* never reordered by staging, full-batch push, flush, partial push with
\* tail drop, the ring or the burst-pop: each frame process_packet runs on
\* was captured after the one it ran on before.
C40_CaptureOrder ==
    \A w \in Workers : wk[w].last_seq # 0 => wk[w].prev_seq < wk[w].last_seq

\* C40 witness: the worker has processed the last frame captured, and a
\* frame captured between it and the one processed before it never reached
\* this worker (it was dropped, or staged for another ring).
C40_Witness ==
    \E w \in Workers :
        /\ wk[w].last_seq = MaxPackets
        /\ wk[w].prev_seq > 0
        /\ wk[w].prev_seq < wk[w].last_seq - 1

(***************************************************************************)
(* The pipeline over a pool of any capacity (src/src/pktbuf.c,             *)
(* src/src/rx_pcap.c, src/src/worker.c)                                    *)
(***************************************************************************)

\* pktbuf_pool_init(p, capacity) with any capacity from 1 to PoolCap (the
\* function refuses 0 only).
InitPoolAny ==
    /\ \E capacity \in 1 .. PoolCap :
         /\ pool_top = capacity
         /\ free_stack = [i \in 0 .. capacity - 1 |-> i + 1]
    /\ t_cache = [t \in Threads |-> <<>>]
    /\ pcall = [t \in Threads |-> NoPoolCall]

\* The workers hold no buffer and none is on its way to them: rings, popped
\* bursts and TX batches are empty and no worker is inside the pool.
WorkersHoldNothing ==
    \A w \in Workers :
        /\ rq[w] = <<>>
        /\ wk[w].batch = <<>>
        /\ wk[w].tx_bufs = <<>>
        /\ pcall[w].pc = "idle"

\* The capture thread is between two frames and has staged nothing.
CaptureHoldsNothing ==
    /\ rx.pc = "dispatch"
    /\ pcall[0].pc = "idle"
    /\ \A r \in DOMAIN rx_batches : rx_batches[r] = <<>>

\* A pktbuf_alloc by the capture thread returns NULL: its cache and the
\* global stack are empty.
AllocFails == t_cache[0] = <<>> /\ pool_top = 0

\* C39: the pipeline never starves on buffers stranded in worker-local
\* caches: for every pool capacity, once the workers have freed every
\* buffer they hold, a pktbuf_alloc by the capture thread succeeds.
C39_NoStarvation ==
    (WorkersHoldNothing /\ CaptureHoldsNothing) => ~AllocFails

\* The part of C39 the code keeps: the same for a pool of more buffers than
\* the workers' caches hold together.
NoStarvationLargePool ==
    (/\ pool_capacity > LOCAL_CACHE_SIZE * Cardinality(Workers)
     /\ WorkersHoldNothing
     /\ CaptureHoldsNothing) => ~AllocFails

(***************************************************************************)
(* Rule table (src/src/rule_table.c)                                       *)
(*                                                                         *)
(* Addresses and masks are two bits wide here, in both families: an IPv4   *)
(* address is a two-bit number, an IPv6 address two bytes of one bit each. *)
(***************************************************************************)

\* Bound of the rule table model.
RuleCap == 3        \* capacity passed to rule_table_init

ACT_DROP == 0
ACT_FWD == 1

\* The predicate part of a rule: ip_ver, protocol, ports, addresses, masks.
\* 0 is the wildcard of ip_ver, protocol and the ports.
RuleShapes ==
    {[ip_ver |-> 0, protocol |-> 0, src_port |-> 0, dst_port |-> 0,
      src_ip |-> 0, src_mask |-> 0, dst_ip |-> 0, dst_mask |-> 0, type |-> ACT_DROP],
     [ip_ver |-> 4, protocol |-> 0, src_port |-> 0, dst_port |-> 0,
      src_ip |-> 2, src_mask |-> 2, dst_ip |-> 0, dst_mask |-> 0, type |-> ACT_FWD],
     [ip_ver |-> 4, protocol |-> 0, src_port |-> 0, dst_port |-> 0,
      src_ip |-> 3, src_mask |-> 0, dst_ip |-> 1, dst_mask |-> 3, type |-> ACT_FWD],
     [ip_ver |-> 0, protocol |-> 6, src_port |-> 0, dst_port |-> 80,
      src_ip |-> 0, src_mask |-> 0, dst_ip |-> 0, dst_mask |-> 0, type |-> ACT_FWD],
     [ip_ver |-> 6, protocol |-> 17, src_port |-> 53, dst_port |-> 0,
      src_ip |-> 2, src_mask |-> 2, dst_ip |-> 0, dst_mask |-> 0, type |-> ACT_DROP]}

\* The rules a caller passes to rule_table_add: any shape, a priority, and
\* whatever the caller left in rule_id.
RuleInputs ==
    {[priority |-> p, rule_id |-> id, shape |-> s] :
        p \in {1, 2}, id \in {0, 9}, s \in RuleShapes}

\* The flow keys a caller passes to rule_table_match.
KeySet ==
    {[ip_ver |-> 4, protocol |-> 6,  src_port |-> 1024, dst_port |-> 80, src_ip |-> 2, dst_ip |-> 1],
     [ip_ver |-> 4, protocol |-> 6,  src_port |-> 1024, dst_port |-> 80, src_ip |-> 1, dst_ip |-> 2],
     [ip_ver |-> 4, protocol |-> 17, src_port |-> 53,   dst_port |-> 53, src_ip |-> 3, dst_ip |-> 1],
     [ip_ver |-> 4, protocol |-> 1,  src_port |-> 0,    dst_port |-> 0,  src_ip |-> 1, dst_ip |-> 0],
     [ip_ver |-> 6, protocol |-> 17, src_port |-> 53,   dst_port |-> 53, src_ip |-> 2, dst_ip |-> 0],
     [ip_ver |-> 6, protocol |-> 17, src_port |-> 53,   dst_port |-> 53, src_ip |-> 1, dst_ip |-> 0],
     [ip_ver |-> 6, protocol |-> 6,  src_port |-> 1024, dst_port |-> 80, src_ip |-> 0, dst_ip |-> 0]}

\* match_ip: (pkt_ip & mask) == (rule_ip & mask).
match_ip(pkt_ip, rule_ip, mask) == BitAnd(pkt_ip, mask) = BitAnd(rule_ip, mask)

\* match_rule: the cheap checks first; addresses are compared for IPv4 keys
\* only (the IPv6 branch is empty).
match_rule(r, k) ==
    IF r.ip_ver # 0 /\ r.ip_ver # k.ip_ver THEN FALSE
    ELSE IF r.protocol # 0 /\ r.protocol # k.protocol THEN FALSE
    ELSE IF r.src_port # 0 /\ r.src_port # k.src_port THEN FALSE
    ELSE IF r.dst_port # 0 /\ r.dst_port # k.dst_port THEN FALSE
    ELSE IF k.ip_ver = 4
    THEN /\ match_ip(k.src_ip, r.src_ip, r.src_mask)
         /\ match_ip(k.dst_ip, r.dst_ip, r.dst_mask)
    ELSE TRUE

\* rule_priority_cmp: by priority, then by rule_id.
rule_priority_cmp_no_tiebreak(ra, rb) ==
    IF ra.priority < rb.priority THEN -1
    ELSE IF ra.priority > rb.priority THEN 1
    ELSE 0
rule_priority_cmp(ra, rb) ==
    IF ra.priority < rb.priority THEN -1
    ELSE IF ra.priority > rb.priority THEN 1
    ELSE IF ra.rule_id < rb.rule_id THEN -1
    ELSE IF ra.rule_id > rb.rule_id THEN 1
    ELSE 0

\* qsort(base, n, size, rule_priority_cmp): the array becomes one of its
\* rearrangements that the comparison function orders; which one, where the
\* function returns 0 for two elements, is up to the library.
RECURSIVE Rearrangements(_)
Rearrangements(idx) ==
    IF idx = {} THEN {<<>>}
    ELSE UNION {{<<i>> \o q : q \in Rearrangements(idx \ {i})} : i \in idx}

qsort(a) ==
    LET n == Len(a)
        ordered == {g \in Rearrangements(1 .. n) : \A i, j \in 1 .. n :
                       i < j => rule_priority_cmp(a[g[i]], a[g[j]]) <= 0}
    IN  {[i \in 1 .. n |-> a[g[i]]] : g \in ordered}

\* The rule as rule_table_add stores it: the copy of the input with rule_id
\* set to the count and the address of a zero mask cleared.  ins is history:
\* the number of rules added before this one.
StoredRule_keeps_input_id(t, r_in) ==
    [priority |-> r_in.priority,
     rule_id |-> r_in.rule_id,
     ins |-> Len(t),
     ip_ver |-> r_in.shape.ip_ver,
     protocol |-> r_in.shape.protocol,
     src_port |-> r_in.shape.src_port,
     dst_port |-> r_in.shape.dst_port,
     src_ip |-> IF r_in.shape.ip_ver = 4 /\ r_in.shape.src_mask = 0 THEN 0 ELSE r_in.shape.src_ip,
     src_mask |-> r_in.shape.src_mask,
     dst_ip |-> IF r_in.shape.ip_ver = 4 /\ r_in.shape.dst_mask = 0 THEN 0 ELSE r_in.shape.dst_ip,
     dst_mask |-> r_in.shape.dst_mask,
     type |-> r_in.shape.type]
StoredRule(t, r_in) ==
    [priority |-> r_in.priority,
     rule_id |-> Len(t),
     ins |-> Len(t),
     ip_ver |-> r_in.shape.ip_ver,
     protocol |-> r_in.shape.protocol,
     src_port |-> r_in.shape.src_port,
     dst_port |-> r_in.shape.dst_port,
     src_ip |-> IF r_in.shape.ip_ver = 4 /\ r_in.shape.src_mask = 0 THEN 0 ELSE r_in.shape.src_ip,
     src_mask |-> r_in.shape.src_mask,
     dst_ip |-> IF r_in.shape.ip_ver = 4 /\ r_in.shape.dst_mask = 0 THEN 0 ELSE r_in.shape.dst_ip,
     dst_mask |-> r_in.shape.dst_mask,
     type |-> r_in.shape.type]

\* rule_table_match: the index of the first rule of the array that matches,
\* 0 for NULL.
RECURSIVE first_match(_, _, _)
first_match(t, k, i) ==
    IF i > Len(t) THEN 0
    ELSE IF match_rule(t[i], k) THEN i
    ELSE first_match(t, k, i + 1)

rule_table_match(t, k) == first_match(t, k, 1)

NoRuleCall == [op |-> "none", rc |-> 0, key |-> 0, res |-> 0]

\* rule_table_init: count = 0.
InitRule ==
    /\ rules = <<>>
    /\ rt_last = NoRuleCall

\* rule_table_add(t, r_in): -1 on a full table, else append, sort, 0.
RuleAdd ==
    /\ \E r_in \in RuleInputs :
         IF Len(rules) >= RuleCap
         THEN /\ rt_last' = [NoRuleCall EXCEPT !.op = "add", !.rc = -1]
              /\ UNCHANGED rules
         ELSE /\ rules' \in qsort(Append(rules, StoredRule(rules, r_in)))
              /\ rt_last' = [NoRuleCall EXCEPT !.op = "add", !.rc = 0]
    /\ UNCHANGED <<call, ringVars, neighVars, poolVars, held, pipeVars>>

\* rule_table_match(t, k).
RuleMatch ==
    /\ \E k \in KeySet :
         rt_last' = [op |-> "match", rc |-> 0, key |-> k, res |-> rule_table_match(rules, k)]
    /\ UNCHANGED <<rules, call, ringVars, neighVars, poolVars, held, pipeVars>>

NextRule ==
    \/ RuleAdd
    \/ RuleMatch

\* (priority, rule_id) of a before that of b.
RuleBefore(a, b) ==
    \/ a.priority < b.priority
    \/ a.priority = b.priority /\ a.rule_id < b.rule_id

\* The indices of the rules whose predicate holds for key k.
Matching(k) == {i \in 1 .. Len(rules) : match_rule(rules[i], k)}

C13_SortedIds ==
    /\ \A i, j \in 1 .. Len(rules) : i < j => RuleBefore(rules[i], rules[j])
    /\ \A i \in 1 .. Len(rules) : rules[i].rule_id = rules[i].ins
    /\ \A i, j \in 1 .. Len(rules) : i # j => rules[i].rule_id # rules[j].rule_id

\* C13 witness: a successful add whose rule, last inserted, was sorted to the
\* front of a full table.
C13_Witness ==
    /\ rt_last.op = "add"
    /\ rt_last.rc = 0
    /\ Len(rules) = RuleCap
    /\ rules[1].ins = RuleCap - 1

\* The rule's masked source and destination addresses are the key's.
MaskedEqual(r, k) ==
    /\ BitAnd(k.src_ip, r.src_mask) = BitAnd(r.src_ip, r.src_mask)
    /\ BitAnd(k.dst_ip, r.dst_mask) = BitAnd(r.dst_ip, r.dst_mask)

\* C34: rule_table_match never returns a rule whose masked source or
\* destination address differs from the key's, for IPv4 keys and for IPv6
\* keys; a zero mask matches any address.
C34_MaskedMatch ==
    rt_last.op = "match" /\ rt_last.res # 0 =>
        MaskedEqual(rules[rt_last.res], rt_last.key)

\* The part of C34 the code keeps: the rule returned for an IPv4 key.
MaskedMatchV4 ==
    rt_last.op = "match" /\ rt_last.res # 0 /\ rt_last.key.ip_ver = 4 =>
        MaskedEqual(rules[rt_last.res], rt_last.key)

(***************************************************************************)
(* Flow hash (src/src/parser.c)                                            *)
(*                                                                         *)
(* An IPv4 address is a number, an IPv6 address its four 32-bit words.     *)
(***************************************************************************)

\* Bound of the flow hash model: ports and IPv4 addresses are HashBits wide.
HashBits == 2

\* No stateless function has been called.
NoFnCall == [fn |-> "none"]

InitCall == call = NoFnCall

\* The caller is done with the result of the last call.
FnReturn ==
    /\ call.fn # "none"
    /\ call' = NoFnCall
    /\ UNCHANGED <<ruleVars, ringVars, neighVars, poolVars, held, pipeVars>>

HashVals == 0 .. Pow2(HashBits) - 1

Ip6HashSet == {<<0, 0, 0, 0>>, <<1, 2, 0, 3>>, <<3, 0, 0, 0>>}

\* The flow keys parse_flow_key can produce: IPv4 or IPv6; ICMP, TCP or UDP.
HashKeys ==
    {[ip_ver |-> 4, protocol |-> p, src_port |-> sp, dst_port |-> dp,
      src_ip |-> s, dst_ip |-> d] :
        p \in {1, 6, 17}, sp \in HashVals, dp \in HashVals, s \in HashVals, d \in HashVals}
    \cup
    {[ip_ver |-> 6, protocol |-> p, src_port |-> sp, dst_port |-> dp,
      src_ip |-> s, dst_ip |-> d] :
        p \in {1, 6, 17}, sp \in HashVals, dp \in HashVals, s \in Ip6HashSet, d \in Ip6HashSet}

\* The XOR of the words s[i] ^ d[i], i = 0 .. 3, into h.
RECURSIVE fold_v6(_, _, _, _)
fold_v6(h, s, d, i) ==
    IF i > 4 THEN h
    ELSE fold_v6(BitXor(h, BitXor(s[i], d[i])), s, d, i + 1)

\* flow_hash: ports and protocol, then the addresses of the key's ip_ver.
flow_hash_without_dst(k) ==
    LET h == BitXor(BitXor(k.src_port, k.dst_port), k.protocol)
    IN  IF k.ip_ver = 4 THEN BitXor(h, k.src_ip)
        ELSE IF k.ip_ver = 6 THEN fold_v6(h, k.src_ip, <<0, 0, 0, 0>>, 1)
        ELSE h
flow_hash(k) ==
    LET h == BitXor(BitXor(k.src_port, k.dst_port), k.protocol)
    IN  IF k.ip_ver = 4 THEN BitXor(h, BitXor(k.src_ip, k.dst_ip))
        ELSE IF k.ip_ver = 6 THEN fold_v6(h, k.src_ip, k.dst_ip, 1)
        ELSE h

\* The key of the reverse direction of the same flow.
swap_endpoints(k) ==
    [k EXCEPT !.src_ip = k.dst_ip, !.dst_ip = k.src_ip,
              !.src_port = k.dst_port, !.dst_port = k.src_port]

\* flow_hash is called on a key, on its reverse, and on a key that differs
\* from it in src_ip only.
FlowHashCall ==
    /\ call.fn = "none"
    /\ \E k \in HashKeys :
         \E s2 \in (IF k.ip_ver = 4 THEN HashVals ELSE Ip6HashSet) \ {k.src_ip} :
             LET k2 == [k EXCEPT !.src_ip = s2]
             IN  call' = [fn |-> "flow_hash", k |-> k, h |-> flow_hash(k),
                          h_swapped |-> flow_hash(swap_endpoints(k)),
                          k2 |-> k2, h2 |-> flow_hash(k2)]
    /\ UNCHANGED <<ruleVars, ringVars, neighVars, poolVars, held, pipeVars>>

NextHash ==
    \/ FlowHashCall
    \/ FnReturn

\* C14: flow_hash of a key equals flow_hash of the key with its endpoints
\* swapped, and two IPv4 keys that differ only in src_ip hash differently.
C14_HashSymmetric ==
    call.fn = "flow_hash" =>
        /\ call.h = call.h_swapped
        /\ call.k.ip_ver = 4 => call.h # call.h2

\* C14 witness: an IPv6 key whose endpoints differ in address and port.
C14_Witness ==
    /\ call.fn = "flow_hash"
    /\ call.k.ip_ver = 6
    /\ call.k.src_ip # call.k.dst_ip
    /\ call.k.src_port # call.k.dst_port
    /\ call.h # 0

(***************************************************************************)
(* Ring choice of the capture callback (src/src/rx_pcap.c)                 *)
(***************************************************************************)

\* Bound of the ring choice model: ring_count is a power of two up to
\* 2^DispatchRingLog (rx_start refuses any other ring_count).
DispatchRingLog == 3

RingCounts == {Pow2(e) : e \in 0 .. DispatchRingLog}

\* pcap_callback for a frame parse_flow_key accepts with key k: the ring is
\* the flow hash masked by ring_count - 1.
ring_id_of_source(k, ring_count) ==
    BitAnd(BitXor(BitXor(k.src_port, k.protocol),
                  IF k.ip_ver = 4 THEN k.src_ip ELSE fold_v6(0, k.src_ip, <<0, 0, 0, 0>>, 1)),
           ring_count - 1)
ring_id(k, ring_count) == BitAnd(flow_hash(k), ring_count - 1)

\* The callback stages a frame with key k and a frame of the reverse
\* direction, with ring_count rings.
RingIdCall ==
    /\ call.fn = "none"
    /\ \E k \in HashKeys, ring_count \in RingCounts :
         call' = [fn |-> "ring_id", k |-> k, ring_count |-> ring_count,
                  id |-> ring_id(k, ring_count),
                  id_swapped |-> ring_id(swap_endpoints(k), ring_count)]
    /\ UNCHANGED <<ruleVars, ringVars, neighVars, poolVars, held, pipeVars>>

NextDispatch ==
    \/ RingIdCall
    \/ FnReturn

\* C27: a parseable frame and the frame of the reverse direction (endpoints
\* swapped) are staged to the same ring, flow_hash & (ring_count - 1), a
\* ring index below ring_count, for every power-of-two ring_count.
C27_SameRing ==
    call.fn = "ring_id" =>
        /\ call.id = call.id_swapped
        /\ call.id = BitAnd(flow_hash(call.k), call.ring_count - 1)
        /\ call.id \in 0 .. call.ring_count - 1

\* C27 witness: four rings, a key whose endpoints differ in address and
\* port, staged to a ring other than the first.
C27_Witness ==
    /\ call.fn = "ring_id"
    /\ call.ring_count = 4
    /\ call.k.src_ip # call.k.dst_ip
    /\ call.k.src_port # call.k.dst_port
    /\ call.id = 3

(***************************************************************************)
(* Parser (src/src/parser.c)                                               *)
(*                                                                         *)
(* A frame is its length and the header fields parse_flow_key looks at;    *)
(* a field sits at its wire offset, whether or not the frame is long       *)
(* enough to hold it.  The parser reports the byte offsets it read.        *)
(***************************************************************************)

\* Bound of the parser model: the longest frame.
MaxFrameLen == 76

\* Sizes of the packed header structs.
ETH_HDR_LEN == 14
IPV4_HDR_LEN == 20
IPV6_HDR_LEN == 40
UDP_HDR_LEN == 8
TCP_HDR_LEN == 20
ICMP_HDR_LEN == 8

ETHERTYPE_IPV4 == 2048
ETHERTYPE_IPV6 == 34525

\* Frames: IPv4, IPv6 or ARP ethertype; version and IHL nibbles of the
\* first IPv4 header byte; protocol / next header; TCP data offset nibble;
\* l4, the bytes at offsets 0, 1, 2, 3, 4, 5 of the L4 header (the two ports
\* of UDP and TCP; type, code, checksum and identifier of ICMP).
FrameSet ==
    [len : 0 .. MaxFrameLen,
     ethertype : {ETHERTYPE_IPV4, ETHERTYPE_IPV6, 2054},
     version : {4, 6},
     ihl : {4, 5, 6, 15},
     protocol : {1, 6, 17, 58},
     data_offset : {4, 5, 6, 15},
     l4 : {<<8, 0, 0, 0, 18, 52>>}]

\* ICMP and ICMPv6 frames over IPv4 and IPv6 without options, with
\* rem = 0 .. 9 bytes after the IP header.
IcmpFrames ==
    {[len |-> ETH_HDR_LEN + (IF e = ETHERTYPE_IPV4 THEN IPV4_HDR_LEN ELSE IPV6_HDR_LEN) + rem,
      ethertype |-> e, version |-> 4, ihl |-> 5, protocol |-> p, data_offset |-> 5,
      l4 |-> <<ty, code, 0, 0, id[1], id[2]>>] :
        e \in {ETHERTYPE_IPV4, ETHERTYPE_IPV6}, p \in {1, 58}, rem \in 0 .. 9,
        ty \in {0, 8, 128, 255}, code \in {0, 1, 255},
        id \in {<<18, 52>>, <<0, 1>>, <<255, 255>>}}

\* A uint16_t field at byte i of the L4 header as the (little-endian) host
\* loads it, and ntohs, which swaps the two bytes of its argument.
load16(b, i) == b[i + 1] + 256 * b[i + 2]
ntohs(x) == (x % 256) * 256 + x \div 256

Reject(reads) == [rc |-> -1, reads |-> reads, ip_ver |-> 0, protocol |-> 0]

Accept(reads, ip_ver, protocol, src_port, dst_port) ==
    [rc |-> 0, reads |-> reads, ip_ver |-> ip_ver, protocol |-> protocol,
     src_port |-> src_port, dst_port |-> dst_port]

\* The L4 dispatch of parse_flow_key: the header of out->protocol starts at
\* offset l4_off and l4_len bytes of the frame remain.
parse_l4_unchecked_data_offset(f, reads, ip_ver, l4_off, l4_len) ==
    IF f.protocol = 17 THEN
        IF l4_len < UDP_HDR_LEN THEN Reject(reads)
        ELSE Accept(reads \cup (l4_off .. l4_off + 3), ip_ver, f.protocol,
                    ntohs(load16(f.l4, 0)), ntohs(load16(f.l4, 2)))
    ELSE IF f.protocol = 6 THEN
        IF l4_len < TCP_HDR_LEN THEN Reject(reads)
        ELSE LET rd == reads \cup {l4_off + 12}
                 tcp_hdr_len == f.data_offset * 4
             IN  IF tcp_hdr_len < TCP_HDR_LEN THEN Reject(rd)
                 ELSE Accept(rd \cup (l4_off .. l4_off + 3), ip_ver, f.protocol,
                             ntohs(load16(f.l4, 0)), ntohs(load16(f.l4, 2)))
    ELSE IF f.protocol = 1 THEN
        IF l4_len < ICMP_HDR_LEN THEN Reject(reads)
        ELSE Accept(reads \cup {l4_off, l4_off + 1, l4_off + 4, l4_off + 5},
                    ip_ver, f.protocol, ntohs(load16(f.l4, 4)),
                    (f.l4[1] * 256 + f.l4[2]) % 65536)
    ELSE Reject(reads)
parse_l4(f, reads, ip_ver, l4_off, l4_len) ==
    IF f.protocol = 17 THEN
        IF l4_len < UDP_HDR_LEN THEN Reject(reads)
        ELSE Accept(reads \cup (l4_off .. l4_off + 3), ip_ver, f.protocol,
                    ntohs(load16(f.l4, 0)), ntohs(load16(f.l4, 2)))
    ELSE IF f.protocol = 6 THEN
        IF l4_len < TCP_HDR_LEN THEN Reject(reads)
        ELSE LET rd == reads \cup {l4_off + 12}
                 tcp_hdr_len == f.data_offset * 4
             IN  IF tcp_hdr_len < TCP_HDR_LEN \/ l4_len < tcp_hdr_len THEN Reject(rd)
                 ELSE Accept(rd \cup (l4_off .. l4_off + 3), ip_ver, f.protocol,
                             ntohs(load16(f.l4, 0)), ntohs(load16(f.l4, 2)))
    ELSE IF f.protocol = 1 THEN
        IF l4_len < ICMP_HDR_LEN THEN Reject(reads)
        ELSE Accept(reads \cup {l4_off, l4_off + 1, l4_off + 4, l4_off + 5},
                    ip_ver, f.protocol, ntohs(load16(f.l4, 4)),
                    (f.l4[1] * 256 + f.l4[2]) % 65536)
    ELSE Reject(reads)

\* parse_flow_key: Ethernet header, then the IPv4 or IPv6 header, then L4.
parse_flow_key(f) ==
    IF f.len < ETH_HDR_LEN THEN Reject({})
    ELSE
      LET rd_eth == {12, 13}
          ip_off == ETH_HDR_LEN
          ip_len == f.len - ETH_HDR_LEN
      IN  IF f.ethertype = ETHERTYPE_IPV4 THEN
              IF ip_len < IPV4_HDR_LEN THEN Reject(rd_eth)
              ELSE LET rd_ver == rd_eth \cup {ip_off}
                       ip_hdr_len == f.ihl * 4
                   IN  IF \/ f.version # 4
                          \/ ip_hdr_len < IPV4_HDR_LEN
                          \/ ip_len < ip_hdr_len
                       THEN Reject(rd_ver)
                       ELSE parse_l4(f, rd_ver \cup {ip_off + 9}
                                            \cup (ip_off + 12 .. ip_off + 19),
                                     4, ip_off + ip_hdr_len, ip_len - ip_hdr_len)
          ELSE IF f.ethertype = ETHERTYPE_IPV6 THEN
              IF ip_len < IPV6_HDR_LEN THEN Reject(rd_eth)
              ELSE parse_l4(f, rd_eth \cup {ip_off + 6}
                                   \cup (ip_off + 8 .. ip_off + 39),
                            6, ip_off + IPV6_HDR_LEN, ip_len - IPV6_HDR_LEN)
          ELSE Reject(rd_eth)

ParseCall ==
    /\ call.fn = "none"
    /\ \E f \in FrameSet \cup IcmpFrames :
         call' = [fn |-> "parse_flow_key", f |-> f, out |-> parse_flow_key(f)]
    /\ UNCHANGED <<ruleVars, ringVars, neighVars, poolVars, held, pipeVars>>

NextParse ==
    \/ ParseCall
    \/ FnReturn

\* Length of the IP header of a frame, and the bytes that follow it.
IpHdrLen(f) == IF f.ethertype = ETHERTYPE_IPV4 THEN f.ihl * 4 ELSE IPV6_HDR_LEN

Remaining(f) == f.len - ETH_HDR_LEN - IpHdrLen(f)

\* The frame is shorter than a header some layer requires.
TooShort(f) ==
    \/ f.len < ETH_HDR_LEN
    \/ f.ethertype = ETHERTYPE_IPV4 /\ f.len - ETH_HDR_LEN < IPV4_HDR_LEN
    \/ f.ethertype = ETHERTYPE_IPV6 /\ f.len - ETH_HDR_LEN < IPV6_HDR_LEN
    \/ /\ f.ethertype \in {ETHERTYPE_IPV4, ETHERTYPE_IPV6}
       /\ \/ f.protocol = 17 /\ Remaining(f) < UDP_HDR_LEN
          \/ f.protocol = 6 /\ Remaining(f) < TCP_HDR_LEN
          \/ f.protocol = 1 /\ Remaining(f) < ICMP_HDR_LEN

\* The IPv4 version, the IHL or the TCP data offset is invalid.
BadHeader(f) ==
    \/ /\ f.ethertype = ETHERTYPE_IPV4
       /\ \/ f.version # 4
          \/ f.ihl * 4 < IPV4_HDR_LEN
          \/ f.ihl * 4 > f.len - ETH_HDR_LEN
    \/ /\ f.ethertype \in {ETHERTYPE_IPV4, ETHERTYPE_IPV6}
       /\ f.protocol = 6
       /\ \/ f.data_offset * 4 < TCP_HDR_LEN
          \/ f.data_offset * 4 > Remaining(f)

\* C15: parse_flow_key rejects every frame that is too short for a header
\* of some layer or has an invalid IP version, IHL or TCP data offset, and
\* it reads no byte at an offset >= len.
C15_ParserSound ==
    call.fn = "parse_flow_key" =>
        /\ (TooShort(call.f) \/ BadHeader(call.f)) => call.out.rc = -1
        /\ \A o \in call.out.reads : o < call.f.len

\* An IPv4 frame with options whose TCP data offset exceeds the bytes that
\* remain is rejected after the data offset byte was read.
C15_Witness ==
    /\ call.fn = "parse_flow_key"
    /\ call.f.ethertype = ETHERTYPE_IPV4
    /\ call.f.version = 4
    /\ call.f.ihl = 6
    /\ call.f.protocol = 6
    /\ call.f.data_offset = 6
    /\ Remaining(call.f) \in TCP_HDR_LEN .. 23
    /\ call.out.rc = -1
    /\ ETH_HDR_LEN + 24 + 12 \in call.out.reads

\* The frame is ICMP or ICMPv6 over an IPv4 or IPv6 header the parser
\* takes.
IcmpFrame(f) ==
    /\ f.protocol \in {1, 58}
    /\ f.ethertype \in {ETHERTYPE_IPV4, ETHERTYPE_IPV6}
    /\ ~BadHeader(f)
    /\ f.ethertype = ETHERTYPE_IPV4 => f.len - ETH_HDR_LEN >= IPV4_HDR_LEN
    /\ f.ethertype = ETHERTYPE_IPV6 => f.len - ETH_HDR_LEN >= IPV6_HDR_LEN

\* What the claim says of the parser's result for an ICMP or ICMPv6 frame.
IcmpParsed(f, out) ==
    IF Remaining(f) >= ICMP_HDR_LEN
    THEN /\ out.rc = 0
         /\ out.src_port = f.l4[5] * 256 + f.l4[6]
         /\ out.dst_port = f.l4[1] * 256 + f.l4[2]
    ELSE out.rc = -1

\* C35: parse_flow_key accepts ICMP (protocol 1) and ICMPv6 (protocol 58)
\* frames that carry at least 8 bytes of L4 header and yields src_port =
\* the identifier in host order and dst_port = (type << 8) | code; such
\* frames with fewer than 8 L4 bytes are rejected.
C35_IcmpKey ==
    call.fn = "parse_flow_key" /\ IcmpFrame(call.f) => IcmpParsed(call.f, call.out)

\* The part of C35 the code keeps: protocol 1.
IcmpV4Key ==
    call.fn = "parse_flow_key" /\ IcmpFrame(call.f) /\ call.f.protocol = 1 =>
        IcmpParsed(call.f, call.out)

(***************************************************************************)
(* IPv4 header checksum (src/src/parser.c)                                 *)
(*                                                                         *)
(* A header is the sequence of its bytes.  A uint16_t load takes two       *)
(* bytes in the byte order of the host, low byte first.                    *)
(***************************************************************************)

\* The uint16_t at ptr[i] of the buffer, i counted from 0.
Load16(data, i) == data[2 * i + 1] + 256 * data[2 * i + 2]

\* The sum of the first n 16-bit words of data.  The 32-bit accumulator of
\* the code cannot wrap on a header: 30 words sum to less than 2^21.
RECURSIVE SumWords(_, _)
SumWords(data, n) ==
    IF n = 0 THEN 0
    ELSE SumWords(data, n - 1) + Load16(data, n - 1)

\* while (sum >> 16) sum = (sum & 0xFFFF) + (sum >> 16);
RECURSIVE FoldCarry(_)
FoldCarry(sum) ==
    IF sum \div 65536 = 0 THEN sum
    ELSE FoldCarry((sum % 65536) + (sum \div 65536))

\* ipv4_checksum(data, len): the words, the left-over byte of an odd len,
\* the carries folded back, and the one's complement of the low 16 bits.
ipv4_checksum_no_complement(data, len) ==
    LET words == SumWords(data, len \div 2)
        sum == IF len % 2 = 1 THEN words + data[len] ELSE words
    IN  FoldCarry(sum)
ipv4_checksum(data, len) ==
    LET words == SumWords(data, len \div 2)
        sum == IF len % 2 = 1 THEN words + data[len] ELSE words
    IN  65535 - FoldCarry(sum)

\* Byte positions (from 1) of ip->ttl and of the two bytes of ip->checksum.
TtlAt == 9
CsumAt == 11

\* ip->checksum = c, stored in host byte order.
SetChecksum(hdr, c) ==
    [hdr EXCEPT ![CsumAt] = c % 256, ![CsumAt + 1] = c \div 256]

\* ip->checksum as loaded from the header.
ChecksumField(hdr) == Load16(hdr, (CsumAt - 1) \div 2)

\* ip->ttl--; ip->checksum = 0; ip->checksum = ipv4_checksum(ip, ihl * 4);
DecrementTtl(hdr) ==
    LET h1 == [hdr EXCEPT ![TtlAt] = (hdr[TtlAt] - 1) % 256]
        h2 == SetChecksum(h1, 0)
    IN  SetChecksum(h2, ipv4_checksum(h2, Len(h2)))

\* Headers without options and with a zero checksum field: version 4,
\* IHL 5, total length 20; the identification values make the header words
\* sum to 0xFFFF for the header with id 0x66E2, TTL 64, protocol 6.
PlainHeaders ==
    {<<69, tos, 0, 20, id \div 256, id % 256, 0, 0, ttl, proto, 0, 0,
       10, src, 0, 1, 10, 0, 0, 2>> :
        tos \in {0, 16}, id \in {0, 4660, 26338}, ttl \in {0, 1, 2, 64, 255},
        proto \in {1, 6, 17}, src \in {0, 128}}

\* What the checksum field of a received header may hold: the checksum of
\* the header, that value with a bit flipped, or all bits clear or set.
FieldValues(hdr) ==
    LET c == ipv4_checksum(hdr, Len(hdr))
    IN  {c, (c + 1) % 65536, 0, 65535}

\* A header is verified, its checksum is produced afresh, and the header is
\* forwarded with the TTL decremented.
ChecksumCall ==
    /\ call.fn = "none"
    /\ \E h0 \in PlainHeaders :
         \E c \in FieldValues(h0) :
             LET hdr == SetChecksum(h0, c)
                 fwd == DecrementTtl(hdr)
             IN  call' = [fn |-> "ipv4_checksum", hdr |-> hdr,
                          verify |-> ipv4_checksum(hdr, Len(hdr)),
                          produced |-> ipv4_checksum(SetChecksum(hdr, 0), Len(hdr)),
                          fwd |-> fwd,
                          fwd_verify |-> ipv4_checksum(fwd, Len(fwd))]
    /\ UNCHANGED <<ruleVars, ringVars, neighVars, poolVars, held, pipeVars>>

NextChecksum ==
    \/ ChecksumCall
    \/ FnReturn

\* C16 as stated: verification returns 0 if and only if the checksum field
\* holds the checksum of the header with the field zeroed, and it returns 0
\* after the TTL was decremented and the checksum recomputed.
C16_RoundTrip ==
    call.fn = "ipv4_checksum" =>
        /\ call.verify = 0 <=> ChecksumField(call.hdr) = call.produced
        /\ call.fwd_verify = 0

\* C16, amended: verification returns 0 if and only if the checksum field
\* holds the checksum of the header with the field zeroed, or that checksum
\* is 0 and the field holds 0xFFFF (the other zero of one's complement
\* arithmetic); it returns 0 after the TTL was decremented and the checksum
\* recomputed.
C16_RoundTripUpToZero ==
    call.fn = "ipv4_checksum" =>
        /\ call.verify = 0 <=>
               \/ ChecksumField(call.hdr) = call.produced
               \/ call.produced = 0 /\ ChecksumField(call.hdr) = 65535
        /\ call.fwd_verify = 0
        /\ call.fwd[TtlAt] = (call.hdr[TtlAt] - 1) % 256

\* A header with TTL 64 and its own checksum verifies, and verifies again
\* with another checksum after the TTL was decremented.
C16_Witness ==
    /\ call.fn = "ipv4_checksum"
    /\ call.hdr[TtlAt] = 64
    /\ call.produced # 0
    /\ ChecksumField(call.hdr) = call.produced
    /\ call.verify = 0
    /\ call.fwd[TtlAt] = 63
    /\ ChecksumField(call.fwd) # call.produced
    /\ call.fwd_verify = 0

(***************************************************************************)
(* Ring construction (src/src/ring.c)                                      *)
(***************************************************************************)

\* Bound of the construction model: the largest capacity asked for.
MaxInitCap == 64

\* The caller's spsc_ring_t before ring_init: nothing has been stored in it.
UninitRing == [slots |-> "indeterminate", capacity |-> "indeterminate",
               mask |-> "indeterminate", head |-> "indeterminate",
               tail |-> "indeterminate"]

\* x != 0 && (x & (x - 1)) == 0
is_pow2_accepts_zero(x) == BitAnd(x, x - 1) = 0
is_pow2(x) == x # 0 /\ BitAnd(x, x - 1) = 0

\* ring_init(r, capacity): r_null says that r is NULL, calloc_ok that calloc
\* returned the slot array.  The result is the return code and *r, slots
\* being "indeterminate", "null" or "array".
ring_init(r_null, capacity, calloc_ok) ==
    IF r_null \/ ~is_pow2(capacity) THEN [rc |-> -1, r |-> UninitRing]
    ELSE IF ~calloc_ok THEN [rc |-> -1, r |-> [UninitRing EXCEPT !.slots = "null"]]
    ELSE [rc |-> 0,
          r |-> [slots |-> "array", capacity |-> capacity, mask |-> capacity - 1,
                 head |-> 0, tail |-> 0]]

RingInitCall ==
    /\ call.fn = "none"
    /\ \E r_null \in BOOLEAN, capacity \in 0 .. MaxInitCap, calloc_ok \in BOOLEAN :
         call' = [fn |-> "ring_init", r_null |-> r_null, capacity |-> capacity,
                  calloc_ok |-> calloc_ok,
                  out |-> ring_init(r_null, capacity, calloc_ok)]
    /\ UNCHANGED <<ruleVars, ringVars, neighVars, poolVars, held, pipeVars>>

NextRingInit ==
    \/ RingInitCall
    \/ FnReturn

\* x is 1 doubled some number of times.
RECURSIVE IsPowerOfTwo(_)
IsPowerOfTwo(x) == x = 1 \/ (x > 1 /\ x % 2 = 0 /\ IsPowerOfTwo(x \div 2))

PowersOfTwo == {x \in 1 .. MaxInitCap : IsPowerOfTwo(x)}

\* ring_init succeeded and left an empty ring of the capacity asked for.
InitialisedRing ==
    /\ call.out.rc = 0
    /\ call.out.r.capacity = call.capacity
    /\ call.out.r.mask = call.capacity - 1
    /\ call.out.r.head = 0
    /\ call.out.r.tail = 0

\* C19 as stated: ring_init on a ring returns -1 and creates no ring for a
\* capacity that is 0 or no power of two, and returns 0 with head = tail = 0
\* and mask = capacity - 1 for every power of two.
C19_InitPowerOfTwo ==
    (call.fn = "ring_init" /\ ~call.r_null) =>
        IF call.capacity \in PowersOfTwo
        THEN InitialisedRing
        ELSE call.out.rc = -1 /\ call.out.r = UninitRing

\* C19, amended: ring_init on a ring returns -1 and creates no ring for a
\* capacity that is 0 or no power of two; for a power of two it returns 0
\* with head = tail = 0 and mask = capacity - 1 when calloc returns the slot
\* array, and -1 with no slot array when calloc fails.
C19_InitPowerOfTwoIfAllocated ==
    (call.fn = "ring_init" /\ ~call.r_null) =>
        IF call.capacity \in PowersOfTwo
        THEN IF call.calloc_ok THEN InitialisedRing
             ELSE call.out.rc = -1 /\ call.out.r.slots = "null"
        ELSE call.out.rc = -1 /\ call.out.r = UninitRing

\* A ring of 8 slots was initialised.
C19_Witness ==
    /\ call.fn = "ring_init"
    /\ ~call.r_null
    /\ call.capacity = 8
    /\ call.out.rc = 0
    /\ call.out.r.mask = 7
    /\ call.out.r.head = 0
    /\ call.out.r.tail = 0

(***************************************************************************)
(* One worker's packet processing (src/src/worker.c)                       *)
(*                                                                         *)
(* A frame is the record of the parser model with the fields               *)
(* handle_control_packet and process_packet read besides: the Ethernet     *)
(* addresses, the ARP body, the TTL or hop limit, the destination address, *)
(* the ICMPv6 type with the NDP addresses, and the bytes after the NDP     *)
(* header in cells of 8 bytes (option type, option length byte, MAC).  The *)
(* rule rule_table_match returns for the frame's key is part of the frame. *)
(* The worker's record is held in call; the tables are the neighbor        *)
(* tables.                                                                 *)
(***************************************************************************)

ETHERTYPE_ARP == 2054
ARP_HDR_LEN == 28       \* sizeof(struct arp_hdr)
NDP_NA_HDR_LEN == 24    \* sizeof(struct ndp_na_hdr)
IPPROTO_ICMPV6 == 58
ND_NEIGHBOR_SOLICIT == 135
ND_NEIGHBOR_ADVERT == 136
NDP_OPT_OFF == ETH_HDR_LEN + IPV6_HDR_LEN + NDP_NA_HDR_LEN

\* tx->eth_addr, and the Ethernet addresses of the frames as received.
TxMac == 3
PeerDst == 4
PeerSrc == 5

\* Values of the one-byte TTL / hop limit field.
TtlSet == {0, 1, 2, 255}

\* The addresses of the worker model: the zero address and one other.
WkIp4 == {0, 1}
WkIp6 == {<<0, 0, 0, 0>>, <<1, 0, 0, 0>>}

\* The fields every frame has, with values for those a family does not use.
BaseFrame ==
    [len |-> 0, ethertype |-> 0, version |-> 4, ihl |-> 5, protocol |-> 17,
     data_offset |-> 5, eth_dst |-> PeerDst, eth_src |-> PeerSrc,
     htype |-> 0, ptype |-> 0, hlen |-> 0, plen |-> 0, spa |-> 0, sha |-> 0,
     ttl |-> 64, dst_ip |-> 0, src_addr |-> <<0, 0, 0, 0>>,
     icmp_type |-> 0, target |-> <<0, 0, 0, 0>>, cells |-> <<>>, rule |-> "NONE",
     l4 |-> <<0, 53, 0, 53, 0, 0>>]

\* ARP frames: the Ethernet / IPv4 request or reply, and the frames that
\* differ from it in one respect (one byte short, or one header field off).
ArpFrames ==
    {[BaseFrame EXCEPT !.ethertype = ETHERTYPE_ARP, !.len = v[1], !.htype = v[2],
                       !.ptype = v[3], !.hlen = v[4], !.plen = v[5], !.spa = 1, !.sha = m] :
        v \in {<<ETH_HDR_LEN + ARP_HDR_LEN, 1, ETHERTYPE_IPV4, 6, 4>>,
               <<ETH_HDR_LEN + ARP_HDR_LEN - 1, 1, ETHERTYPE_IPV4, 6, 4>>,
               <<ETH_HDR_LEN + ARP_HDR_LEN, 6, ETHERTYPE_IPV4, 6, 4>>,
               <<ETH_HDR_LEN + ARP_HDR_LEN, 1, ETHERTYPE_IPV6, 6, 4>>,
               <<ETH_HDR_LEN + ARP_HDR_LEN, 1, ETHERTYPE_IPV4, 8, 4>>,
               <<ETH_HDR_LEN + ARP_HDR_LEN, 1, ETHERTYPE_IPV4, 6, 16>>},
        m \in MacSet}

\* One cell of option bytes.
NdpCells == [type : {1, 2, 3}, lenb : {0, 1, 33}, mac : {1}]

\* IPv6 frames whose byte at the ICMPv6 type offset is an NDP type or echo
\* request: cut off inside the NDP header, without options, with one cell,
\* and with an 8-byte option of another type before one cell.  With next
\* header UDP they are data frames.
NdpFrames ==
    {[BaseFrame EXCEPT !.ethertype = ETHERTYPE_IPV6, !.version = 6, !.protocol = nh,
                       !.len = l, !.icmp_type = ty, !.rule = "FWD",
                       !.dst_ip = <<1, 0, 0, 0>>,
                       !.src_addr = <<1, 0, 0, 0>>, !.target = <<1, 0, 0, 0>>] :
        nh \in {IPPROTO_ICMPV6, 17}, l \in {NDP_OPT_OFF - 1, NDP_OPT_OFF},
        ty \in {ND_NEIGHBOR_SOLICIT, ND_NEIGHBOR_ADVERT, 128}}
    \cup
    {[BaseFrame EXCEPT !.ethertype = ETHERTYPE_IPV6, !.version = 6,
                       !.protocol = IPPROTO_ICMPV6,
                       !.len = NDP_OPT_OFF + 8 * Len(cs), !.icmp_type = ty,
                       !.rule = "FWD", !.dst_ip = <<1, 0, 0, 0>>,
                       !.src_addr = <<1, 0, 0, 0>>, !.target = <<1, 0, 0, 0>>,
                       !.cells = cs] :
        ty \in {ND_NEIGHBOR_SOLICIT, ND_NEIGHBOR_ADVERT},
        cs \in {<<c>> : c \in NdpCells}
               \cup {<<[type |-> 3, lenb |-> 1, mac |-> 1], c>> : c \in NdpCells}}

\* IPv4 and IPv6 UDP data frames: complete ones that a FWD rule matches,
\* with every TTL and destination; and, with TTL 1 and 2, frames too short
\* for the parser and frames with the other outcomes of the rule match.
DataFrames ==
    {[BaseFrame EXCEPT !.ethertype = ETHERTYPE_IPV4, !.ttl = t, !.dst_ip = d, !.rule = "FWD",
                       !.len = ETH_HDR_LEN + IPV4_HDR_LEN + UDP_HDR_LEN] :
        t \in TtlSet, d \in WkIp4}
    \cup
    {[BaseFrame EXCEPT !.ethertype = ETHERTYPE_IPV4, !.ttl = t, !.dst_ip = 1, !.rule = v[2],
                       !.len = ETH_HDR_LEN + IPV4_HDR_LEN + UDP_HDR_LEN - v[1]] :
        t \in {1, 2}, v \in {<<1, "FWD">>, <<0, "NONE">>, <<0, "DROP">>, <<0, "OTHER">>}}
    \cup
    {[BaseFrame EXCEPT !.ethertype = ETHERTYPE_IPV6, !.version = 6, !.ttl = t, !.dst_ip = d,
                       !.rule = "FWD",
                       !.len = ETH_HDR_LEN + IPV6_HDR_LEN + UDP_HDR_LEN] :
        t \in TtlSet, d \in WkIp6}
    \cup
    {[BaseFrame EXCEPT !.ethertype = ETHERTYPE_IPV6, !.version = 6, !.ttl = t,
                       !.dst_ip = <<1, 0, 0, 0>>, !.rule = v[2],
                       !.len = ETH_HDR_LEN + IPV6_HDR_LEN + UDP_HDR_LEN - v[1]] :
        t \in {1, 2}, v \in {<<1, "FWD">>, <<0, "NONE">>, <<0, "DROP">>, <<0, "OTHER">>}}

WkFrames == ArpFrames \cup NdpFrames \cup DataFrames

\* The option walk of handle_control_packet from the cell at 8 * i bytes
\* after the NDP header: the neighbor the frame teaches, if any.  opt_len is
\* a uint8_t.
NoLearn == [learn |-> FALSE, ip |-> <<0, 0, 0, 0>>, mac |-> 0]

RECURSIVE ndp_option_walk(_, _)
ndp_option_walk(f, i) ==
    LET offset == NDP_OPT_OFF + 8 * i
    IN  IF offset + 2 > f.len THEN NoLearn
        ELSE LET opt_type == f.cells[i + 1].type
                 opt_len == (f.cells[i + 1].lenb * 8) % 256
             IN  IF opt_len = 0 \/ offset + opt_len > f.len THEN NoLearn
                 ELSE IF f.icmp_type = ND_NEIGHBOR_SOLICIT /\ opt_type = 1 /\ opt_len >= 8
                 THEN [learn |-> TRUE, ip |-> f.src_addr, mac |-> f.cells[i + 1].mac]
                 ELSE IF f.icmp_type = ND_NEIGHBOR_ADVERT /\ opt_type = 2 /\ opt_len >= 8
                 THEN [learn |-> TRUE, ip |-> f.target, mac |-> f.cells[i + 1].mac]
                 ELSE ndp_option_walk(f, i + opt_len \div 8)

\* handle_control_packet on the bytes of a frame: whether it consumed the
\* frame, and the tables after it.  upd is history: the updates it made.
control_packet(f, arpt, ndpt) ==
    IF f.ethertype = ETHERTYPE_ARP
    THEN IF /\ f.len >= ETH_HDR_LEN + ARP_HDR_LEN
            /\ f.htype = 1 /\ f.ptype = ETHERTYPE_IPV4 /\ f.hlen = 6 /\ f.plen = 4
         THEN [consumed |-> TRUE, arpt |-> arp_update(arpt, f.spa, f.sha), ndpt |-> ndpt,
               upd |-> <<[fam |-> 4, ip |-> f.spa, mac |-> f.sha]>>]
         ELSE [consumed |-> TRUE, arpt |-> arpt, ndpt |-> ndpt, upd |-> <<>>]
    ELSE IF /\ f.ethertype = ETHERTYPE_IPV6
            /\ f.len >= NDP_OPT_OFF
            /\ f.protocol = IPPROTO_ICMPV6
            /\ f.icmp_type \in {ND_NEIGHBOR_SOLICIT, ND_NEIGHBOR_ADVERT}
    THEN LET o == ndp_option_walk(f, 0)
         IN  IF o.learn
             THEN [consumed |-> TRUE, arpt |-> arpt, ndpt |-> ndp_update(ndpt, o.ip, o.mac),
                   upd |-> <<[fam |-> 6, ip |-> o.ip, mac |-> o.mac]>>]
             ELSE [consumed |-> TRUE, arpt |-> arpt, ndpt |-> ndpt, upd |-> <<>>]
    ELSE [consumed |-> FALSE, arpt |-> arpt, ndpt |-> ndpt, upd |-> <<>>]

\* The worker_t fields process_packet keeps between packets, as calloc and
\* worker_init leave them.  arp_filled and ndp_filled are history: the L1
\* cache has been written after a table hit.
ZeroWorker ==
    [last_arp_ip |-> 0, last_arp_mac |-> 0,
     last_ndp_ip |-> <<0, 0, 0, 0>>, last_ndp_mac |-> 0,
     arp_filled |-> FALSE, ndp_filled |-> FALSE]

\* What process_packet did with a frame.  path is "free" (pktbuf_free on
\* this path) or "tx" (appended to the TX batch); the other fields say
\* whether handle_control_packet consumed the frame, whether
\* parse_flow_key and rule_table_match were called on it, whether it was
\* counted in rule_stats, and the frame's fields afterwards.
Outcome(path, control, parsed, matched, counted, f) ==
    [path |-> path, control |-> control, parsed |-> parsed, matched |-> matched,
     counted |-> counted, eth_dst |-> f.eth_dst, eth_src |-> f.eth_src, ttl |-> f.ttl]

\* The FWD branch of process_packet for a key of ip_ver 4: the L1 cache, then
\* the ARP table.
forward_v4(w, f, arpt) ==
    LET g == arp_get_mac(arpt, f.dst_ip)
        cached == w.last_arp_ip # 0 /\ f.dst_ip = w.last_arp_ip
        found == cached \/ g.hit
        dst_mac == IF cached THEN w.last_arp_mac ELSE g.mac
        f1 == [f EXCEPT !.ttl = f.ttl - 1]
    IN  [w |-> IF ~cached /\ g.hit
               THEN [w EXCEPT !.last_arp_ip = f.dst_ip, !.last_arp_mac = g.mac,
                              !.arp_filled = TRUE]
               ELSE w,
         f |-> IF found THEN [f1 EXCEPT !.eth_dst = dst_mac, !.eth_src = TxMac] ELSE f1]

\* The same for a key of ip_ver 6: memcmp with last_ndp_ip, then the NDP
\* table.
forward_v6(w, f, ndpt) ==
    LET g == ndp_get_mac(ndpt, f.dst_ip)
        cached == f.dst_ip = w.last_ndp_ip
        found == cached \/ g.hit
        dst_mac == IF cached THEN w.last_ndp_mac ELSE g.mac
        f1 == [f EXCEPT !.ttl = f.ttl - 1]
    IN  [w |-> IF ~cached /\ g.hit
               THEN [w EXCEPT !.last_ndp_ip = f.dst_ip, !.last_ndp_mac = g.mac,
                              !.ndp_filled = TRUE]
               ELSE w,
         f |-> IF found THEN [f1 EXCEPT !.eth_dst = dst_mac, !.eth_src = TxMac] ELSE f1]

\* process_packet on one frame with the worker's record and the tables.
worker_process_forwards_expired(w, f, arpt, ndpt) ==
    LET c == control_packet(f, arpt, ndpt)
        key == parse_flow_key(f)
        same == [w |-> w, arpt |-> c.arpt, ndpt |-> c.ndpt, upd |-> c.upd]
    IN  IF c.consumed
        THEN same @@ [out |-> Outcome("free", TRUE, FALSE, FALSE, FALSE, f)]
        ELSE IF key.rc # 0
        THEN same @@ [out |-> Outcome("free", FALSE, TRUE, FALSE, FALSE, f)]
        ELSE IF f.rule = "NONE"
        THEN same @@ [out |-> Outcome("free", FALSE, TRUE, TRUE, FALSE, f)]
        ELSE IF f.rule = "DROP"
        THEN same @@ [out |-> Outcome("free", FALSE, TRUE, TRUE, TRUE, f)]
        ELSE IF f.rule = "FWD"
        THEN IF f.ttl < 1
             THEN same @@ [out |-> Outcome("free", FALSE, TRUE, TRUE, TRUE, f)]
             ELSE LET r == IF key.ip_ver = 4 THEN forward_v4(w, f, arpt)
                           ELSE forward_v6(w, f, ndpt)
                  IN  [w |-> r.w, arpt |-> c.arpt, ndpt |-> c.ndpt, upd |-> c.upd,
                       out |-> Outcome("tx", FALSE, TRUE, TRUE, TRUE, r.f)]
        ELSE same @@ [out |-> Outcome("free", FALSE, TRUE, TRUE, TRUE, f)]
worker_process(w, f, arpt, ndpt) ==
    LET c == control_packet(f, arpt, ndpt)
        key == parse_flow_key(f)
        same == [w |-> w, arpt |-> c.arpt, ndpt |-> c.ndpt, upd |-> c.upd]
    IN  IF c.consumed
        THEN same @@ [out |-> Outcome("free", TRUE, FALSE, FALSE, FALSE, f)]
        ELSE IF key.rc # 0
        THEN same @@ [out |-> Outcome("free", FALSE, TRUE, FALSE, FALSE, f)]
        ELSE IF f.rule = "NONE"
        THEN same @@ [out |-> Outcome("free", FALSE, TRUE, TRUE, FALSE, f)]
        ELSE IF f.rule = "DROP"
        THEN same @@ [out |-> Outcome("free", FALSE, TRUE, TRUE, TRUE, f)]
        ELSE IF f.rule = "FWD"
        THEN IF f.ttl <= 1
             THEN same @@ [out |-> Outcome("free", FALSE, TRUE, TRUE, TRUE, f)]
             ELSE LET r == IF key.ip_ver = 4 THEN forward_v4(w, f, arpt)
                           ELSE forward_v6(w, f, ndpt)
                  IN  [w |-> r.w, arpt |-> c.arpt, ndpt |-> c.ndpt, upd |-> c.upd,
                       out |-> Outcome("tx", FALSE, TRUE, TRUE, TRUE, r.f)]
        ELSE same @@ [out |-> Outcome("free", FALSE, TRUE, TRUE, TRUE, f)]

\* The neighbor table of the frame's family has an entry for its
\* destination address.
table_holds(f, arpt, ndpt) ==
    IF f.ethertype = ETHERTYPE_IPV4 THEN arp_get_mac(arpt, f.dst_ip).hit
    ELSE IF f.ethertype = ETHERTYPE_IPV6 THEN ndp_get_mac(ndpt, f.dst_ip).hit
    ELSE FALSE

\* main: the workers are calloc'ed, then worker_init and worker_start.
WorkerStart ==
    /\ call.fn = "none"
    /\ call' = [fn |-> "worker", w |-> ZeroWorker, handled |-> FALSE]
    /\ UNCHANGED <<ruleVars, ringVars, neighVars, poolVars, held, pipeVars>>

\* The worker takes a frame from its burst and runs process_packet on it.
\* before is history: the worker's record and the tables' answers for the
\* frame's destination when the call began.
WorkerPacket ==
    /\ call.fn = "worker"
    /\ \E f \in WkFrames :
         LET r == worker_process(call.w, f, arp_entries, ndp_entries)
         IN  /\ call' = [fn |-> "worker", w |-> r.w, handled |-> TRUE, f |-> f,
                         out |-> r.out, upd |-> r.upd,
                         before |-> [w |-> call.w,
                                     table_hit |-> table_holds(f, arp_entries, ndp_entries)]]
             /\ arp_entries' = r.arpt
             /\ ndp_entries' = r.ndpt
             /\ neigh_learned' =
                  [v4 |-> neigh_learned.v4 \cup {r.upd[i].ip : i \in {j \in 1 .. Len(r.upd) : r.upd[j].fam = 4}},
                   v6 |-> neigh_learned.v6 \cup {r.upd[i].ip : i \in {j \in 1 .. Len(r.upd) : r.upd[j].fam = 6}}]
    /\ UNCHANGED <<neigh_last, ruleVars, ringVars, poolVars, held, pipeVars>>

NextWorker ==
    \/ WorkerStart
    \/ WorkerPacket

\* process_packet has run on a frame.
Handled == call.fn = "worker" /\ call.handled

\* C28: a frame matched by a FWD rule with TTL or hop limit <= 1 is freed
\* and does not enter the TX batch; a frame that enters the TX batch had a
\* TTL or hop limit above 1 and carries it decremented by exactly 1.
C28_TtlDecremented ==
    Handled =>
        /\ (call.out.matched /\ call.f.rule = "FWD" /\ call.f.ttl <= 1) => call.out.path = "free"
        /\ call.out.path = "tx" =>
             /\ call.f.ttl > 1
             /\ call.out.ttl = call.f.ttl - 1
             /\ call.out.ttl \in 1 .. 254

\* C28 witness: an IPv6 frame with hop limit 1 that a FWD rule matched.
C28_Witness ==
    /\ Handled
    /\ call.f.ethertype = ETHERTYPE_IPV6
    /\ call.out.matched /\ call.f.rule = "FWD"
    /\ call.f.ttl = 1
    /\ call.out.path = "free"

\* The L1 cache of the frame's family held, when process_packet began, an
\* entry for the frame's destination that it had taken from the table.
L1Learned ==
    IF call.f.ethertype = ETHERTYPE_IPV4
    THEN call.before.w.arp_filled /\ call.before.w.last_arp_ip = call.f.dst_ip
    ELSE call.before.w.ndp_filled /\ call.before.w.last_ndp_ip = call.f.dst_ip

\* C29: a forwarded frame for whose destination neither the L1 cache nor the
\* neighbor table held a learned entry leaves with the Ethernet dst and src
\* it came with.
C29_MissKeepsL2 ==
    (Handled /\ call.out.path = "tx" /\ ~L1Learned /\ ~call.before.table_hit) =>
        /\ call.out.eth_dst = call.f.eth_dst
        /\ call.out.eth_src = call.f.eth_src

\* The frame is an ARP frame, an NDP frame (ICMPv6 type 135 or 136).
IsArp(f) == f.ethertype = ETHERTYPE_ARP

IsNdp(f) ==
    /\ f.ethertype = ETHERTYPE_IPV6
    /\ f.protocol = IPPROTO_ICMPV6
    /\ f.icmp_type \in {ND_NEIGHBOR_SOLICIT, ND_NEIGHBOR_ADVERT}

\* The ARP frame holds the ARP body and is of the Ethernet / IPv4 kind.
ArpValid(f) ==
    /\ f.len >= ETH_HDR_LEN + ARP_HDR_LEN
    /\ f.htype = 1 /\ f.ptype = ETHERTYPE_IPV4 /\ f.hlen = 6 /\ f.plen = 4

\* Every option from cell i on has a length of at least one unit of 8 bytes
\* and ends inside the frame.
RECURSIVE OptionsFit(_, _)
OptionsFit(f, i) ==
    IF i >= Len(f.cells) THEN TRUE
    ELSE LET units == f.cells[i + 1].lenb
         IN  units > 0 /\ i + units <= Len(f.cells) /\ OptionsFit(f, i + units)

NdpValid(f) == f.len >= NDP_OPT_OFF /\ OptionsFit(f, 0)

\* C30, first part: ARP and NDP frames are consumed by
\* handle_control_packet: freed, not parsed, classified or counted.
C30_Consumed ==
    (Handled /\ (IsArp(call.f) \/ IsNdp(call.f))) =>
        /\ call.out.control
        /\ call.out.path = "free"
        /\ ~call.out.parsed /\ ~call.out.matched /\ ~call.out.counted

\* C30, second part: arp_update is called for a valid ARP frame only, and a
\* malformed ARP or NDP frame causes no update of a neighbor table.
C30_NoLearnWhenMalformed ==
    Handled =>
        /\ (\E i \in 1 .. Len(call.upd) : call.upd[i].fam = 4) =>
               IsArp(call.f) /\ ArpValid(call.f)
        /\ (IsArp(call.f) /\ ~ArpValid(call.f)) => call.upd = <<>>
        /\ (IsNdp(call.f) /\ ~NdpValid(call.f)) => call.upd = <<>>

\* C30: both parts.
C30_ControlFrames == C30_Consumed /\ C30_NoLearnWhenMalformed

(***************************************************************************)
(* The NDP option walk, step by step (src/src/worker.c)                    *)
(***************************************************************************)

\* Bound of the walk model: the most cells of 8 option bytes a frame holds.
MaxWalkCells == 34

\* NDP frames with n cells after the NDP header: the first cell carries
\* length byte l1, the others l2; all are of option type 3, which teaches
\* nothing, so the walk ends by its loop condition or a break.
WalkFrames ==
    {[BaseFrame EXCEPT !.ethertype = ETHERTYPE_IPV6, !.version = 6,
                       !.protocol = IPPROTO_ICMPV6, !.icmp_type = ty,
                       !.len = NDP_OPT_OFF + 8 * n,
                       !.cells = [k \in 1 .. n |->
                                     [type |-> 3, lenb |-> IF k = 1 THEN l1 ELSE l2,
                                      mac |-> 1]]] :
        ty \in {ND_NEIGHBOR_SOLICIT, ND_NEIGHBOR_ADVERT},
        n \in {0, 1, 2, 3, MaxWalkCells - 1, MaxWalkCells},
        l1 \in {0, 1, 2, 31, 32, 33, 255},
        l2 \in {0, 1, 2}}

\* The cells the while loop of handle_control_packet visits from cell i on,
\* in order (a cell is visited when its type and length bytes are read).
\* opt_len is a uint8_t; offset += opt_len is a step of opt_len / 8 cells.
RECURSIVE ndp_walk_visits(_, _)
ndp_walk_visits(f, i) ==
    LET offset == NDP_OPT_OFF + 8 * i
    IN  IF offset + 2 > f.len THEN <<>>
        ELSE LET opt_type == f.cells[i + 1].type
                 opt_len == (f.cells[i + 1].lenb * 8) % 256
             IN  IF opt_len = 0 \/ offset + opt_len > f.len THEN <<i>>
                 ELSE IF f.icmp_type = ND_NEIGHBOR_SOLICIT /\ opt_type = 1 /\ opt_len >= 8
                 THEN <<i>>
                 ELSE IF f.icmp_type = ND_NEIGHBOR_ADVERT /\ opt_type = 2 /\ opt_len >= 8
                 THEN <<i>>
                 ELSE <<i>> \o ndp_walk_visits(f, i + opt_len \div 8)

\* handle_control_packet walks the options of one frame.
NdpWalkCall ==
    /\ call.fn = "none"
    /\ \E f \in WalkFrames :
         call' = [fn |-> "ndp_walk", f |-> f, visits |-> ndp_walk_visits(f, 0)]
    /\ UNCHANGED <<ruleVars, ringVars, neighVars, poolVars, held, pipeVars>>

NextWalk ==
    \/ NdpWalkCall
    \/ FnReturn

\* The option at cell i has length 0 or would extend past the frame's end.
WalkMustStop(f, i) ==
    \/ f.cells[i + 1].lenb = 0
    \/ NDP_OPT_OFF + 8 * i + 8 * f.cells[i + 1].lenb > f.len

\* C31: from one visited option to the next the walk advances by 8 x the
\* option's length field (one cell per unit), for every value of the field;
\* the last option visited is one of length 0 or one that would extend past
\* the end of the frame, or the last of the frame; no option is visited
\* twice.
C31_WalkAdvance ==
    call.fn = "ndp_walk" =>
        LET v == call.visits
            f == call.f
        IN  /\ \A j \in 1 .. Len(v) - 1 :
                  /\ v[j + 1] - v[j] = f.cells[v[j] + 1].lenb
                  /\ ~WalkMustStop(f, v[j])
            /\ Len(v) > 0 =>
                  \/ WalkMustStop(f, v[Len(v)])
                  \/ v[Len(v)] + f.cells[v[Len(v)] + 1].lenb = Len(f.cells)
            /\ \A j, k \in 1 .. Len(v) : j < k => v[j] < v[k]

\* The part of C31 the code keeps: the walk visits ever later cells, so it
\* terminates, and it stops at a length byte of 0.
WalkTerminates ==
    call.fn = "ndp_walk" =>
        LET v == call.visits
        IN  /\ \A j, k \in 1 .. Len(v) : j < k => v[j] < v[k]
            /\ \A j \in 1 .. Len(v) - 1 : call.f.cells[v[j] + 1].lenb # 0

\* process_packet rewrote the frame's Ethernet addresses.
Rewritten == Handled /\ call.out.path = "tx" /\ call.out.eth_src = TxMac

\* What the neighbor table of the frame's family answers for its
\* destination.
TableAnswer(f) ==
    IF f.ethertype = ETHERTYPE_IPV4 THEN arp_get_mac(arp_entries, f.dst_ip)
                                    ELSE ndp_get_mac(ndp_entries, f.dst_ip)

\* C38: whenever a worker rewrites the destination MAC of a forwarded
\* packet, the MAC it writes is the MAC most recently stored by update for
\* that destination in the neighbor table at that moment: the L1 cache
\* never serves a MAC that a later learning event has replaced.
C38_FreshMac ==
    Rewritten =>
        /\ TableAnswer(call.f).hit
        /\ TableAnswer(call.f).mac = call.out.eth_dst

\* The part of C38 the code keeps: a rewrite that did not come from the L1
\* cache writes the table's MAC.
TableMacWhenUncached ==
    (Rewritten /\ call.w # call.before.w) =>
        /\ TableAnswer(call.f).hit
        /\ TableAnswer(call.f).mac = call.out.eth_dst

\* A rewrite from an L1 cache entry that was taken from the table, after an
\* update has replaced the table's MAC for the destination.
StaleMacServed ==
    /\ Rewritten
    /\ L1Learned
    /\ TableAnswer(call.f).hit
    /\ TableAnswer(call.f).mac # call.out.eth_dst

(***************************************************************************)
(* Specifications                                                          *)
(***************************************************************************)

\* The state after construction: ring_init, arp_table_init, ndp_table_init,
\* pktbuf_pool_init, rule_table_init.
Init ==
    /\ InitRing
    /\ InitNeigh
    /\ InitPool
    /\ InitHeld
    /\ InitPipe
    /\ InitRule
    /\ InitCall

SpecRing == Init /\ [][NextRing]_vars

SpecRingInit == Init /\ [][NextRingInit]_vars

SpecNeigh == Init /\ [][NextNeigh]_vars

SpecPool == Init /\ [][NextPool]_vars

SpecSolo == Init /\ [][NextSolo]_vars

\* The state after construction with the pool of the two flushing threads.
InitFlush ==
    /\ InitRing
    /\ InitNeigh
    /\ InitFlushPool
    /\ InitPipe
    /\ InitRule
    /\ InitCall

SpecFlush == InitFlush /\ [][NextFlush]_vars

SpecPipe == Init /\ [][NextPipe]_vars

\* The pipeline with RxRings rings: rx_start has allocated a staging batch
\* per ring.
InitRx ==
    /\ InitRing
    /\ InitNeigh
    /\ InitPool
    /\ InitHeld
    /\ InitPipeRings
    /\ InitRule
    /\ InitCall

SpecRx == InitRx /\ [][NextRx]_vars

\* The pipeline over a pool of any capacity.
InitAnyPool ==
    /\ InitRing
    /\ InitNeigh
    /\ InitPoolAny
    /\ InitHeld
    /\ InitPipe
    /\ InitRule
    /\ InitCall

SpecAnyPool == InitAnyPool /\ [][NextPipe]_vars

\* The pipeline with the capture log.
InitLogged ==
    /\ InitRing
    /\ InitNeigh
    /\ InitPool
    /\ InitHeld
    /\ InitPipeLogged
    /\ InitRule
    /\ InitCall

SpecOrder == InitLogged /\ [][NextPipe]_vars

SpecRule == Init /\ [][NextRule]_vars

SpecHash == Init /\ [][NextHash]_vars

SpecDispatch == Init /\ [][NextDispatch]_vars

SpecParse == Init /\ [][NextParse]_vars

SpecChecksum == Init /\ [][NextChecksum]_vars

SpecWorker == Init /\ [][NextWorker]_vars

SpecCount == Init /\ [][NextCount]_vars

SpecLock == Init /\ [][NextLock]_vars

SpecWalk == Init /\ [][NextWalk]_vars

\* The steps of worker w, its steps inside the pool included.
WorkerNext(w) ==
    \/ WkPopLoad(w)
    \/ WkPopStore(w)
    \/ WkCheckStop(w)
    \/ WkProcess(w)
    \/ WkFreed(w)
    \/ WkSend(w)
    \/ WkDrain(w)
    \/ PoolStep(w) /\ UNCHANGED <<held, ringVars, neighVars, auxVars, pipeVars>>

\* Each worker is a thread of its own that the scheduler keeps running.
FairPipe == SpecPipe /\ \A w \in Workers : WF_vars(WorkerNext(w))

\* Once the stop flag is set every worker eventually terminates.
WorkersTerminate == g_stop ~> (\A w \in Workers : wk[w].pc = "done")

=============================================================================
